---- MODULE Spec2Model ----
(***************************************************************************)
(* A model of the matching and scoring pipeline of vdjmatchR               *)
(* (src/src/rust/src): the edit-distance kernel, the CDR3 and segment      *)
(* scores, the per-query matcher with its hit-selection policy, the        *)
(* informativeness weights, the parallel batch executor, tcrdist, the      *)
(* corpus filters, the text filters and the scope parser of the R          *)
(* interface.                                                              *)
(*                                                                         *)
(* Strings are sequences of bytes (ASCII codes).  An f64 is modelled as an *)
(* exact rational [n, d] in lowest terms with d > 0; d = 0 is a non-finite *)
(* value: 0/0 is NaN and -1/0 is NEG_INFINITY.  Every f64 the modelled     *)
(* code computes is a correctly rounded quotient of two small integers, or *)
(* a sum of at most three such terms, so that the ordering of two values   *)
(* and the 1e-9 tolerance test agree with the rational ones.               *)
(***************************************************************************)
EXTENDS Integers, Sequences, FiniteSets, TLC

VARIABLES
    \* the single-query matcher
    database,       \* Database.entries, in load order
    clonotype,      \* the query Clonotype handed to match_clonotype
    config,         \* the MatchConfig handed to match_clonotype
    matches,        \* the Vec<ClonotypeMatch> returned
    outcome,        \* "none" (not called), "returned", "panicked"
    \* the alignment and scoring kernel on one pair of strings
    seq_query,      \* query string
    seq_target,     \* target string
    alignment,      \* the Alignment of the pair, or NoAlignment
    scores,         \* the scores computed from the alignment, or NoScores
    distance,       \* edit_distance(seq_query, seq_target), or None
    \* segment_match_score on one pair of segment identifiers
    seg_scores,     \* the pair, the normalize flag and the score, or None
    \* tcrdist on one pair of TCRs
    tcr_first,      \* first TCR
    tcr_second,     \* second TCR
    tcr_distance,   \* tcrdist(tcr_first, tcr_second), or None
    \* the parallel batch executor
    batch_queries,  \* the slice of clonotypes handed to match_clonotypes_parallel
    batch_taken,    \* the indices of the queries a worker has taken
    batch_worker,   \* per worker thread, the index it is matching (0: idle)
    batch_slots,    \* the collected vector under construction, one slot per query
    batch_done,     \* how many queries have been matched so far
    batch_output,   \* the call's result: None while running
    \* the corpus filters
    corpus,         \* Database.entries of the source database
    filter_call,    \* the filter called and its arguments, or None
    filtered,       \* Database.entries of the database returned, or None
    \* SearchScope::parse and the scope argument of match_tcr
    scope_string,   \* the scope string
    scope_result,   \* what parse returned and what match_tcr returned, or None
    \* the text filters on one entry
    text_entry,     \* the DatabaseEntry
    text_check      \* the filter applied and what matches returned, or None

matcher_vars == <<database, clonotype, config, matches, outcome>>

kernel_vars == <<seq_query, seq_target, alignment, scores, distance>>

segment_vars == <<seg_scores>>

tcr_vars == <<tcr_first, tcr_second, tcr_distance>>

batch_vars == <<batch_queries, batch_taken, batch_worker, batch_slots, batch_done,
                batch_output>>

filter_vars == <<corpus, filter_call, filtered>>

scope_vars == <<scope_string, scope_result>>

text_vars == <<text_entry, text_check>>

vars == <<matcher_vars, kernel_vars, batch_vars, segment_vars, tcr_vars, filter_vars,
          scope_vars, text_vars>>

----------------------------------------------------------------------------
(* Bounds of the model *)

\* longest CDR3 string considered
MaxLen == 2

\* most entries loaded into the database
MaxEntries == 2

\* largest search_scope.total
MaxTotal == 1

\* largest top_n_hits
MaxTopN == 2

\* most queries in a batch
MaxQueries == 3

\* worker threads of the pool
NumWorkers == 2

\* bytes of the CDR3 strings of the matcher: 'A' and the lower-case 'a'
Alphabet == {65, 97}

Strings == UNION {[1..k -> Alphabet] : k \in 0..MaxLen}

\* bytes of the strings of the kernel: 'A', 'S', 'T' and the lower-case 'a'
KernelAlphabet == {65, 83, 84, 97}

KernelStrings == UNION {[1..k -> KernelAlphabet] : k \in 0..MaxLen}

----------------------------------------------------------------------------
(* f64 arithmetic on exact rationals *)

Abs(x) == IF x < 0 THEN -x ELSE x

Min(a, b) == IF a <= b THEN a ELSE b

Max(a, b) == IF a >= b THEN a ELSE b

RECURSIVE GCD(_, _)
GCD(a, b) == IF b = 0 THEN a ELSE GCD(b, a % b)

NaN == [n |-> 0, d |-> 0]

NEG_INFINITY == [n |-> -1, d |-> 0]

IsNaN(x) == x.d = 0 /\ x.n = 0

IsFinite(x) == x.d > 0

\* the f64 quotient n / d of two integers, d >= 0 (0/0 is NaN)
Rat(n, d) ==
    IF d = 0 THEN (IF n = 0 THEN NaN ELSE [n |-> IF n < 0 THEN -1 ELSE 1, d |-> 0])
    ELSE LET g == GCD(Abs(n), d) IN [n |-> n \div g, d |-> d \div g]

Zero == Rat(0, 1)

One == Rat(1, 1)

\* a < b on f64: false as soon as one side is NaN
F64Lt(a, b) ==
    /\ ~IsNaN(a) /\ ~IsNaN(b)
    /\ IF IsFinite(a) /\ IsFinite(b) THEN a.n * b.d < b.n * a.d
       ELSE IF IsFinite(a) THEN b.n > 0
       ELSE IF IsFinite(b) THEN a.n < 0
       ELSE a.n < b.n

F64Le(a, b) == ~IsNaN(a) /\ ~IsNaN(b) /\ ~F64Lt(b, a)

F64Add(a, b) ==
    IF IsFinite(a) /\ IsFinite(b) THEN Rat(a.n * b.d + b.n * a.d, a.d * b.d)
    ELSE IF IsNaN(a) \/ IsNaN(b) THEN NaN
    ELSE IF IsFinite(a) THEN b
    ELSE IF IsFinite(b) THEN a
    ELSE IF a.n = b.n THEN a ELSE NaN

F64Neg(a) == [n |-> -a.n, d |-> a.d]

F64Sub(a, b) == F64Add(a, F64Neg(b))

F64Mul(a, b) ==
    IF IsFinite(a) /\ IsFinite(b) THEN Rat(a.n * b.n, a.d * b.d)
    ELSE Rat(a.n * b.n, 0)

\* f64::max and f64::min: when one side is NaN the other is returned
F64Max(a, b) == IF IsNaN(a) THEN b ELSE IF IsNaN(b) THEN a ELSE IF F64Lt(a, b) THEN b ELSE a

F64Min(a, b) == IF IsNaN(a) THEN b ELSE IF IsNaN(b) THEN a ELSE IF F64Lt(b, a) THEN b ELSE a

\* Option<Ordering> of a.partial_cmp(b)
PartialCmp(a, b) ==
    IF IsNaN(a) \/ IsNaN(b) THEN "None"
    ELSE IF F64Lt(a, b) THEN "Less"
    ELSE IF F64Lt(b, a) THEN "Greater"
    ELSE "Equal"

----------------------------------------------------------------------------
(* sequence.rs: the CDR3 value object and segment normalisation *)

\* char::to_uppercase on an ASCII byte
ToUpperByte(b) == IF b >= 97 /\ b <= 122 THEN b - 32 ELSE b

\* Cdr3Sequence::new: the sequence is stored upper-cased
Cdr3SequenceNew(sequence) == [i \in 1..Len(sequence) |-> ToUpperByte(sequence[i])]

----------------------------------------------------------------------------
(* alignment.rs: the edit-distance kernel *)

\* a row step in which a deletion costs nothing
NextRowFreeDeletion(prev_row, i, seq1, seq2) ==
    LET len2 == Len(seq2)
        curr_row[j \in 0..len2] ==
            IF j = 0 THEN i
            ELSE LET cost == IF seq1[i] = seq2[j] THEN 0 ELSE 1
                 IN  Min(Min(prev_row[j], curr_row[j - 1] + 1), prev_row[j - 1] + cost)
    IN  curr_row

\* one step of the row loop of edit_distance: curr_row from prev_row, for row i
NextRow(prev_row, i, seq1, seq2) ==
    LET len2 == Len(seq2)
        curr_row[j \in 0..len2] ==
            IF j = 0 THEN i
            ELSE LET cost == IF seq1[i] = seq2[j] THEN 0 ELSE 1
                 IN  Min(Min(prev_row[j] + 1, curr_row[j - 1] + 1),
                         prev_row[j - 1] + cost)
    IN  curr_row

\* edit_distance: unit-cost Levenshtein on two rolling rows
edit_distance(seq1, seq2) ==
    LET len1 == Len(seq1)
        len2 == Len(seq2)
        row[i \in 0..len1] ==
            IF i = 0 THEN [j \in 0..len2 |-> j]
            ELSE NextRow(row[i - 1], i, seq1, seq2)
    IN  IF len1 = 0 THEN len2
        ELSE IF len2 = 0 THEN len1
        ELSE row[len1][len2]

\* a table in which a substitution costs 2
DpTableCostlySubstitution(query, target) ==
    LET len1 == Len(query)
        len2 == Len(target)
        dp[i \in 0..len1, j \in 0..len2] ==
            IF j = 0 THEN i
            ELSE IF i = 0 THEN j
            ELSE LET cost == IF query[i] = target[j] THEN 0 ELSE 2
                 IN  Min(Min(dp[i - 1, j] + 1, dp[i, j - 1] + 1),
                         dp[i - 1, j - 1] + cost)
    IN  dp

\* the DP table of align
DpTable(query, target) ==
    LET len1 == Len(query)
        len2 == Len(target)
        dp[i \in 0..len1, j \in 0..len2] ==
            IF j = 0 THEN i
            ELSE IF i = 0 THEN j
            ELSE LET cost == IF query[i] = target[j] THEN 0 ELSE 1
                 IN  Min(Min(dp[i - 1, j] + 1, dp[i, j - 1] + 1),
                         dp[i - 1, j - 1] + cost)
    IN  dp

\* a backtrace that follows the diagonal only
RECURSIVE BacktraceDiagonalOnly(_, _, _, _, _, _)
BacktraceDiagonalOnly(dp, query, target, i, j, acc) ==
    IF ~(i > 0 \/ j > 0) THEN acc
    ELSE IF i > 0 /\ j > 0
              /\ dp[i, j] = dp[i - 1, j - 1] + (IF query[i] = target[j] THEN 0 ELSE 1)
    THEN BacktraceDiagonalOnly(dp, query, target, i - 1, j - 1,
            IF query[i] = target[j]
            THEN [acc EXCEPT !.operations = Append(@, "Match")]
            ELSE [acc EXCEPT !.operations = Append(@, "Substitution"),
                             !.substitutions = @ + 1])
    ELSE [acc EXCEPT !.stuck = TRUE]

\* the backtrace loop of align, from cell (i, j); acc holds the operations
\* pushed so far (last pushed last) and the three counters.  A pass of the
\* loop in which no branch applies leaves i and j as they are: the loop
\* never ends (stuck).
RECURSIVE Backtrace(_, _, _, _, _, _)
Backtrace(dp, query, target, i, j, acc) ==
    IF ~(i > 0 \/ j > 0) THEN acc
    ELSE LET cost == IF query[i] = target[j] THEN 0 ELSE 1
         IN  IF i > 0 /\ j > 0 /\ dp[i, j] = dp[i - 1, j - 1] + cost
             THEN Backtrace(dp, query, target, i - 1, j - 1,
                    IF cost = 0
                    THEN [acc EXCEPT !.operations = Append(@, "Match")]
                    ELSE [acc EXCEPT !.operations = Append(@, "Substitution"),
                                     !.substitutions = @ + 1])
             ELSE IF i > 0 /\ dp[i, j] = dp[i - 1, j] + 1
             THEN Backtrace(dp, query, target, i - 1, j,
                    [acc EXCEPT !.operations = Append(@, "Deletion"),
                                !.deletions = @ + 1])
             ELSE IF j > 0 /\ dp[i, j] = dp[i, j - 1] + 1
             THEN Backtrace(dp, query, target, i, j - 1,
                    [acc EXCEPT !.operations = Append(@, "Insertion"),
                                !.insertions = @ + 1])
             ELSE [acc EXCEPT !.stuck = TRUE]

\* the operations left in the order the backtrace pushed them
KeepOrder(s) == s

\* operations.reverse()
Reverse(s) == [k \in 1..Len(s) |-> s[Len(s) + 1 - k]]

\* the Alignment built from the table dp and the outcome bt of the backtrace:
\* the operations are reversed, the distance is dp[len1][len2]
AlignmentOf(query, target, dp, bt) ==
    [query |-> query,
     target |-> target,
     operations |-> Reverse(bt.operations),
     substitutions |-> bt.substitutions,
     insertions |-> bt.insertions,
     deletions |-> bt.deletions,
     edit_distance |-> dp[Len(query), Len(target)],
     stuck |-> bt.stuck]

\* the backtrace of the table dp from (|query|, |target|)
BacktraceFromEnd(query, target, dp) ==
    AlignmentOf(query, target, dp,
        Backtrace(dp, query, target, Len(query), Len(target),
            [operations |-> <<>>, substitutions |-> 0, insertions |-> 0,
             deletions |-> 0, stuck |-> FALSE]))

\* align: the full table, the backtrace, the reversed operation list
align(query, target) == BacktraceFromEnd(query, target, DpTable(query, target))

\* Alignment::within_scope
within_scope(aln, scope) ==
    /\ aln.substitutions <= scope.substitutions
    /\ aln.insertions <= scope.insertions
    /\ aln.deletions <= scope.deletions
    /\ aln.edit_distance <= scope.total

\* SearchScope::is_exact
is_exact(scope) == scope.total = 0

\* a gate that applies the per-operation limits of the scope to the alignment
\* as well; matches_within_scope does not
matches_within_limits(query, target, scope) ==
    /\ edit_distance(query, target) <= scope.total
    /\ within_scope(align(query, target), scope)

\* matches_within_scope on the sequences of two Cdr3Sequence values
matches_within_scope(query, target, scope) ==
    IF is_exact(scope) THEN query = target
    ELSE edit_distance(query, target) <= scope.total

----------------------------------------------------------------------------
(* scoring.rs: the substitution table and the scores of an Alignment *)

\* b"ARNDCQEGHILKMFPSTWYV"
Acids == {65, 82, 78, 68, 67, 81, 69, 71, 72, 73, 76, 75, 77, 70, 80, 83, 84, 87, 89, 86}

\* the `similar` list: <<aa1, aa2, score>>
Similar ==
    { <<65, 83, 1>>, <<65, 84, 0>>,
      <<82, 75, 2>>, <<82, 81, 1>>,
      <<78, 68, 1>>, <<78, 83, 1>>,
      <<68, 69, 2>>,
      <<67, 83, -1>>,
      <<81, 69, 0>>, <<81, 75, 1>>,
      <<69, 75, 1>>,
      <<73, 76, 2>>, <<73, 77, 1>>, <<73, 86, 3>>,
      <<76, 77, 2>>, <<76, 86, 1>>,
      <<77, 86, 1>>,
      <<70, 89, 3>>, <<70, 87, 1>>,
      <<80, 65, -1>>,
      <<83, 84, 1>>,
      <<89, 87, 2>> }

\* BLOSUM62.get(&(aa1, aa2)).copied().unwrap_or(default): the diagonal of the
\* twenty acids is 4, the listed pairs are entered both ways
Blosum62GetOr(aa1, aa2, default) ==
    IF aa1 = aa2 /\ aa1 \in Acids THEN 4
    ELSE LET hit == {t \in Similar : (t[1] = aa1 /\ t[2] = aa2) \/ (t[1] = aa2 /\ t[2] = aa1)}
         IN  IF hit = {} THEN default ELSE (CHOOSE t \in hit : TRUE)[3]

\* the loop of compute_alignment_score from operation k on, with the running
\* score and the cursors qi, ti (0-based, as in the source)
RECURSIVE ScoreWalk(_, _, _, _, _)
ScoreWalk(aln, k, score, qi, ti) ==
    IF k > Len(aln.operations) THEN score
    ELSE LET op == aln.operations[k]
         IN  IF op \in {"Match", "Substitution"}
             THEN IF qi < Len(aln.query) /\ ti < Len(aln.target)
                  THEN ScoreWalk(aln, k + 1,
                         score + Blosum62GetOr(aln.query[qi + 1], aln.target[ti + 1], -3),
                         qi + 1, ti + 1)
                  ELSE ScoreWalk(aln, k + 1, score, qi, ti)
             ELSE IF op = "Insertion"
             THEN ScoreWalk(aln, k + 1, score - 4, qi, ti + 1)
             ELSE ScoreWalk(aln, k + 1, score - 4, qi + 1, ti)

\* compute_alignment_score: the i32 score (returned as f64)
compute_alignment_score(aln) == ScoreWalk(aln, 1, 0, 0, 0)

\* sum over the bytes of s of BLOSUM62[aa, aa], 4 for an unknown byte
RECURSIVE SelfScore(_, _)
SelfScore(s, k) ==
    IF k > Len(s) THEN 0 ELSE Blosum62GetOr(s[k], s[k], 4) + SelfScore(s, k + 1)

\* compute_normalized_score
compute_normalized_score(aln) ==
    LET raw_score == compute_alignment_score(aln)
        max_score == SelfScore(aln.query, 1)
        max_score_target == SelfScore(aln.target, 1)
        max_possible == Max(max_score, max_score_target)
        normalized == Rat(raw_score + aln.edit_distance * 4, max_possible)
    IN  IF max_possible = 0 THEN Zero
        ELSE F64Min(F64Max(normalized, Zero), One)

\* simple_mismatch_score: 1.0 - edit_distance / max(|query|, |target|)
simple_mismatch_score(aln) ==
    F64Sub(One, Rat(aln.edit_distance, Max(Len(aln.query), Len(aln.target))))

\* s.split('*').next(): the bytes before the first '*' (42)
RECURSIVE SplitStarFirst(_, _)
SplitStarFirst(s, k) ==
    IF k > Len(s) \/ s[k] = 42 THEN SubSeq(s, 1, k - 1) ELSE SplitStarFirst(s, k + 1)

\* Clonotype::normalize_segment
normalize_segment(segment) == SplitStarFirst(segment, 1)

\* a segment score that drops the alleles whatever the normalize flag is
segment_score_normalizing(query_segment, db_segment, normalize) ==
    IF SplitStarFirst(query_segment, 1) = SplitStarFirst(db_segment, 1) THEN One ELSE Zero

\* segment_match_score
segment_match_score(query_segment, db_segment, normalize) ==
    LET query_norm == IF normalize THEN SplitStarFirst(query_segment, 1) ELSE query_segment
        db_norm == IF normalize THEN SplitStarFirst(db_segment, 1) ELSE db_segment
    IN  IF query_norm = db_norm THEN One ELSE Zero

----------------------------------------------------------------------------
(* matching.rs: the per-query matcher *)

None == [some |-> FALSE]

Some(x) == [some |-> TRUE, val |-> x]

\* SearchScope::EXACT
EXACT == [substitutions |-> 0, insertions |-> 0, deletions |-> 0, total |-> 0]

\* MatchConfig::default()
DefaultConfig ==
    [search_scope |-> EXACT,
     match_v |-> FALSE,
     match_j |-> FALSE,
     use_vdjmatch_scoring |-> FALSE,
     scoring_mode |-> 1,
     exhaustive_search |-> 1,
     score_threshold |-> None,
     max_hits_only |-> FALSE,
     top_n_hits |-> None,
     weight_by_informativeness |-> FALSE]

\* Clonotype::new: the CDR3 goes through Cdr3Sequence::new, the segments are kept
ClonotypeNew(cdr3_aa, v_segment, j_segment) ==
    [cdr3_aa |-> Cdr3SequenceNew(cdr3_aa), v_segment |-> v_segment, j_segment |-> j_segment]

\* an f64 weight w is held as the p with w = -log10(p); 1.0 = -log10(1/10)
NegLog10(p) == [neg_log10_of |-> p]

WeightOne == NegLog10(Rat(1, 10))

\* gates that compare the segments also when the query segment is empty
PassesSegmentGatesAlways(q, db_entry, cfg) ==
    /\ cfg.match_v => normalize_segment(q.v_segment) = normalize_segment(db_entry.v_segment)
    /\ cfg.match_j => normalize_segment(q.j_segment) = normalize_segment(db_entry.j_segment)

\* the V and J gates of the scan loop
PassesSegmentGates(q, db_entry, cfg) ==
    /\ (cfg.match_v /\ q.v_segment # <<>>)
          => normalize_segment(q.v_segment) = normalize_segment(db_entry.v_segment)
    /\ (cfg.match_j /\ q.j_segment # <<>>)
          => normalize_segment(q.j_segment) = normalize_segment(db_entry.j_segment)

\* the scope gate of the scan loop: the reference CDR3 goes through Cdr3Sequence::new
PassesScopeGate(q, db_entry, cfg) ==
    matches_within_scope(q.cdr3_aa, Cdr3SequenceNew(db_entry.cdr3), cfg.search_scope)

\* a CDR3 score that does not look at scoring_mode
Cdr3ScoreAnyMode(aln, cfg) ==
    IF cfg.use_vdjmatch_scoring THEN compute_normalized_score(aln)
    ELSE simple_mismatch_score(aln)

\* the CDR3 score of an alignment
Cdr3Score(aln, cfg) ==
    IF cfg.use_vdjmatch_scoring
    THEN IF cfg.scoring_mode = 1
         THEN compute_normalized_score(aln)
         ELSE simple_mismatch_score(aln)
    ELSE simple_mismatch_score(aln)

\* the aggregate score
TotalScore(cdr3_score, v_score, j_score, cfg) ==
    IF cfg.use_vdjmatch_scoring
    THEN F64Add(F64Add(F64Mul(Rat(1, 2), cdr3_score), F64Mul(Rat(1, 4), v_score)),
                F64Mul(Rat(1, 4), j_score))
    ELSE cdr3_score

\* the ClonotypeMatch built from the scores
ClonotypeMatch(q, db_entry, cfg, aln, cdr3_score, v_score, j_score) ==
    [query_clonotype |-> q,
     db_entry |-> db_entry,
     score |-> TotalScore(cdr3_score, v_score, j_score, cfg),
     weight |-> WeightOne,
     cdr3_alignment_score |-> cdr3_score,
     v_score |-> v_score,
     j_score |-> j_score,
     edit_distance |-> aln.edit_distance]

\* the scores of an aligned candidate
ScoreAligned(q, db_entry, cfg, aln) ==
    ClonotypeMatch(q, db_entry, cfg, aln, Cdr3Score(aln, cfg),
                   segment_match_score(q.v_segment, db_entry.v_segment, TRUE),
                   segment_match_score(q.j_segment, db_entry.j_segment, TRUE))

\* one candidate past the gates: the alignment is of the query CDR3 and the
\* reference CDR3 as stored
ScoreCandidate(q, db_entry, cfg) ==
    ScoreAligned(q, db_entry, cfg, align(q.cdr3_aa, db_entry.cdr3))

\* the threshold gate: `if total_score < threshold { continue }`
PassesThreshold(total_score, cfg) ==
    ~(cfg.score_threshold.some /\ F64Lt(total_score, cfg.score_threshold.val))

\* the end of one pass of the scan loop: the match is pushed unless the
\* threshold gate rejects it
PushUnlessBelow(acc, matched, cfg) ==
    IF ~PassesThreshold(matched.score, cfg) THEN acc ELSE Append(acc, matched)

\* the scan loop from entry k on; acc is `matches`
RECURSIVE ScanEntries(_, _, _, _, _)
ScanEntries(q, db, cfg, k, acc) ==
    IF k > Len(db) THEN acc
    ELSE IF ~PassesSegmentGates(q, db[k], cfg) \/ ~PassesScopeGate(q, db[k], cfg)
    THEN ScanEntries(q, db, cfg, k + 1, acc)
    ELSE ScanEntries(q, db, cfg, k + 1,
                     PushUnlessBelow(acc, ScoreCandidate(q, db[k], cfg), cfg))

\* 1e-9 is 1 / ToleranceDen
ToleranceDen == 1000000000

\* (a - b).abs() < 1e-9
WithinTolerance(a, b) ==
    LET diff == F64Sub(a, b)
    IN  /\ IsFinite(diff)
        /\ Abs(diff.n) < (diff.d \div ToleranceDen) + (IF diff.d % ToleranceDen = 0 THEN 0 ELSE 1)

\* matches.iter().map(|m| m.score).fold(f64::NEG_INFINITY, f64::max)
RECURSIVE FoldMax(_, _, _)
FoldMax(ms, k, acc) ==
    IF k > Len(ms) THEN acc ELSE FoldMax(ms, k + 1, F64Max(acc, ms[k].score))

\* a retain without the absolute value: m.score - max_score < 1e-9
RetainNotAbove(ms, max_score) ==
    LET Keep(m) == LET diff == F64Sub(m.score, max_score)
                   IN  IsFinite(diff) /\ diff.n * ToleranceDen < diff.d
    IN  SelectSeq(ms, Keep)

\* matches.retain(|m| (m.score - max_score).abs() < 1e-9)
RetainNear(ms, max_score) ==
    LET Keep(m) == WithinTolerance(m.score, max_score)
    IN  SelectSeq(ms, Keep)

\* the body of the max_hits_only step
RetainMaxHits(ms) == RetainNear(ms, FoldMax(ms, 1, NEG_INFINITY))

\* the max_hits_only step
MaxHitsStep(ms, cfg) ==
    IF cfg.max_hits_only /\ ms # <<>> THEN RetainMaxHits(ms) ELSE ms

\* the comparator of an ascending sort
CompareHitsAscending(a, b) == PartialCmp(a.score, b.score)

\* the comparator of the sort: b.score.partial_cmp(&a.score), before unwrap()
CompareHits(a, b) == PartialCmp(b.score, a.score)

\* one insertion of the stable sort: x moves left past every element it is
\* Less than; a comparison that is None makes unwrap() panic
RECURSIVE InsertTail(_, _, _)
InsertTail(sorted, x, j) ==
    IF j = 0 THEN [panicked |-> FALSE, v |-> <<x>> \o sorted]
    ELSE LET c == CompareHits(x, sorted[j])
         IN  IF c = "None" THEN [panicked |-> TRUE, v |-> sorted]
             ELSE IF c = "Less" THEN InsertTail(sorted, x, j - 1)
             ELSE [panicked |-> FALSE,
                   v |-> SubSeq(sorted, 1, j) \o <<x>> \o SubSeq(sorted, j + 1, Len(sorted))]

\* matches.sort_by(..): a stable sort; a slice of fewer than two elements is
\* returned without a comparison
RECURSIVE SortFrom(_, _, _)
SortFrom(ms, k, sorted) ==
    IF k > Len(ms) THEN [panicked |-> FALSE, v |-> sorted]
    ELSE LET r == InsertTail(sorted, ms[k], Len(sorted))
         IN  IF r.panicked THEN r ELSE SortFrom(ms, k + 1, r.v)

SortByScore(ms) == SortFrom(ms, 1, <<>>)

\* Vec::truncate
Truncate(ms, len) == SubSeq(ms, 1, Min(len, Len(ms)))

\* matches.truncate(top_n), reached when the sort has not panicked
TruncateSorted(r, top_n) ==
    IF r.panicked THEN r ELSE [panicked |-> FALSE, v |-> Truncate(r.v, top_n)]

\* the body of the top_n_hits step
TopNHits(ms, top_n) == TruncateSorted(SortByScore(ms), top_n)

\* the top_n_hits step
TopNStep(ms, cfg) ==
    IF cfg.top_n_hits.some THEN TopNHits(ms, cfg.top_n_hits.val)
    ELSE [panicked |-> FALSE, v |-> ms]

\* epitope_cdr3_counts[epitope]: the entries of the database with that epitope
EpitopeCount(db, epitope) == Cardinality({k \in 1..Len(db) : db[k].antigen_epitope = epitope})

\* a weight without the + 1 of the denominator: -log10((count + 1) / N)
WeightOverEntries(m, db) ==
    NegLog10(Rat(EpitopeCount(db, m.db_entry.antigen_epitope) + 1, Len(db)))

\* the weight given to one match: -log10((count + 1) / (N + 1))
InformativenessWeight(m, db) ==
    LET count == EpitopeCount(db, m.db_entry.antigen_epitope)
        prob == Rat(count + 1, Len(db) + 1)
    IN  NegLog10(prob)

\* a weighting that also removes the hits whose weight is zero
weights_dropping_uninformative(ms, db) ==
    LET weighted == [k \in 1..Len(ms) |->
                        [ms[k] EXCEPT !.weight = InformativenessWeight(ms[k], db)]]
        Informative(m) == m.weight # NegLog10(One)
    IN  SelectSeq(weighted, Informative)

\* compute_informativeness_weights
compute_informativeness_weights(ms, db) ==
    [k \in 1..Len(ms) |-> [ms[k] EXCEPT !.weight = InformativenessWeight(ms[k], db)]]

\* the weighting step and the return; a panic of the sort has unwound the call
WeightStep(r, db, cfg) ==
    IF r.panicked THEN [panicked |-> TRUE, v |-> <<>>]
    ELSE IF cfg.weight_by_informativeness
    THEN [panicked |-> FALSE, v |-> compute_informativeness_weights(r.v, db)]
    ELSE r

\* match_clonotype: the scan, then max_hits_only, top_n_hits and the weights
match_clonotype(q, db, cfg) ==
    WeightStep(TopNStep(MaxHitsStep(ScanEntries(q, db, cfg, 1, <<>>), cfg), cfg), db, cfg)

----------------------------------------------------------------------------
(* tcrdist.rs: the TCR distance *)

\* the amino acids in the order of the rows of BLOSUM62:
\* A R N D C Q E G H I L K M F P S T W Y V
AcidOrder ==
    <<65, 82, 78, 68, 67, 81, 69, 71, 72, 73, 76, 75, 77, 70, 80, 83, 84, 87, 89, 86>>

BLOSUM62 ==
    << << 4, -1, -2, -2,  0, -1, -1,  0, -2, -1, -1, -1, -1, -2, -1,  1,  0, -3, -2,  0>>,
       <<-1,  5,  0, -2, -3,  1,  0, -2,  0, -3, -2,  2, -1, -3, -2, -1, -1, -3, -2, -3>>,
       <<-2,  0,  6,  1, -3,  0,  0,  0,  1, -3, -3,  0, -2, -3, -2,  1,  0, -4, -2, -3>>,
       <<-2, -2,  1,  6, -3,  0,  2, -1, -1, -3, -4, -1, -3, -3, -1,  0, -1, -4, -3, -3>>,
       << 0, -3, -3, -3,  9, -3, -4, -3, -3, -1, -1, -3, -1, -2, -3, -1, -1, -2, -2, -1>>,
       <<-1,  1,  0,  0, -3,  5,  2, -2,  0, -3, -2,  1,  0, -3, -1,  0, -1, -2, -1, -2>>,
       <<-1,  0,  0,  2, -4,  2,  5, -2,  0, -3, -3,  1, -2, -3, -1,  0, -1, -3, -2, -2>>,
       << 0, -2,  0, -1, -3, -2, -2,  6, -2, -4, -4, -2, -3, -3, -2,  0, -2, -2, -3, -3>>,
       <<-2,  0,  1, -1, -3,  0,  0, -2,  8, -3, -3, -1, -2, -1, -2, -1, -2, -2,  2, -3>>,
       <<-1, -3, -3, -3, -1, -3, -3, -4, -3,  4,  2, -3,  1,  0, -3, -2, -1, -3, -1,  3>>,
       <<-1, -2, -3, -4, -1, -2, -3, -4, -3,  2,  4, -2,  2,  0, -3, -2, -1, -2, -1,  1>>,
       <<-1,  2,  0, -1, -3,  1,  1, -2, -1, -3, -2,  5, -1, -3, -1,  0, -1, -3, -2, -2>>,
       <<-1, -1, -2, -3, -1,  0, -2, -3, -2,  1,  2, -1,  5,  0, -2, -1, -1, -1, -1,  1>>,
       <<-2, -3, -3, -3, -2, -3, -3, -3, -1,  0,  0, -3,  0,  6, -4, -2, -2,  1,  3, -1>>,
       <<-1, -2, -2, -1, -3, -1, -1, -2, -2, -3, -3, -1, -2, -4,  7, -1, -1, -4, -3, -2>>,
       << 1, -1,  1,  0, -1,  0,  0,  0, -1, -2, -2,  0, -1, -2, -1,  4,  1, -3, -2, -2>>,
       << 0, -1,  0, -1, -1, -1, -1, -2, -2, -1, -1, -1, -1, -2, -1,  1,  5, -2, -2,  0>>,
       <<-3, -3, -4, -4, -2, -2, -3, -2, -2, -3, -2, -3, -1,  1, -4, -3, -2, 11,  2, -3>>,
       <<-2, -2, -2, -3, -2, -1, -2, -3,  2, -1, -1, -2, -1,  3, -3, -2, -2,  2,  7, -1>>,
       << 0, -3, -3, -3, -1, -2, -2, -3, -3,  3,  1, -2,  1, -1, -2, -2,  0, -3, -1,  4>> >>

\* aa_to_index: the 0-based row of an amino acid byte, None for any other byte
aa_to_index(aa) ==
    IF \E k \in 1..Len(AcidOrder) : AcidOrder[k] = aa
    THEN Some((CHOOSE k \in 1..Len(AcidOrder) : AcidOrder[k] = aa) - 1)
    ELSE None

\* the table entry of two rows (the tuples are indexed from 1)
Blosum62At(i1, i2) == BLOSUM62[i1.val + 1][i2.val + 1]

\* the lookup of the two rows, -4 when a byte has none
Blosum62Lookup(i1, i2) == IF i1.some /\ i2.some THEN Blosum62At(i1, i2) ELSE -4

\* blosum62_score
blosum62_score(aa1, aa2) == Blosum62Lookup(aa_to_index(aa1), aa_to_index(aa2))

\* a position score that measures against the first byte's own score
position_score_from_self(aa1, aa2) ==
    Max(0, blosum62_score(aa1, aa1) - blosum62_score(aa1, aa2))

\* position_score: max(0, 4 - BLOSUM62[a][b])
position_score(aa1, aa2) == Max(0, 4 - blosum62_score(aa1, aa2))

\* the DP matrix of align_sequences
NwTable(seq1, seq2, gap_penalty) ==
    LET len1 == Len(seq1)
        len2 == Len(seq2)
        dp[i \in 0..len1, j \in 0..len2] ==
            IF j = 0 THEN i * gap_penalty
            ELSE IF i = 0 THEN j * gap_penalty
            ELSE Min(dp[i - 1, j - 1] + position_score(seq1[i], seq2[j]),
                     Min(dp[i - 1, j] + gap_penalty, dp[i, j - 1] + gap_penalty))
    IN  dp

\* align_sequences
align_sequences(seq1, seq2, gap_penalty) ==
    IF Len(seq1) = 0 /\ Len(seq2) = 0 THEN 0
    ELSE IF Len(seq1) = 0 THEN Len(seq2) * gap_penalty
    ELSE IF Len(seq2) = 0 THEN Len(seq1) * gap_penalty
    ELSE NwTable(seq1, seq2, gap_penalty)[Len(seq1), Len(seq2)]

\* TCR::new
TCRNew(cdr1_a_aa, cdr2_a_aa, cdr3_a_aa, cdr1_b_aa, cdr2_b_aa, cdr3_b_aa) ==
    [cdr1_a_aa |-> cdr1_a_aa, cdr2_a_aa |-> cdr2_a_aa, cdr3_a_aa |-> cdr3_a_aa,
     cdr1_b_aa |-> cdr1_b_aa, cdr2_b_aa |-> cdr2_b_aa, cdr3_b_aa |-> cdr3_b_aa]

\* one `if let (Some(seq1), Some(seq2))` of chain_distance
CdrDistance(cdr_1, cdr_2, gap_penalty) ==
    IF cdr_1.some /\ cdr_2.some THEN align_sequences(cdr_1.val, cdr_2.val, gap_penalty)
    ELSE 0

\* a chain distance in which the CDR3 counts once and gaps cost 4
chain_distance_unweighted(cdr1_1, cdr2_1, cdr3_1, cdr1_2, cdr2_2, cdr3_2) ==
    CdrDistance(cdr1_1, cdr1_2, 4) + CdrDistance(cdr2_1, cdr2_2, 4)
        + CdrDistance(cdr3_1, cdr3_2, 4)

\* chain_distance
chain_distance(cdr1_1, cdr2_1, cdr3_1, cdr1_2, cdr2_2, cdr3_2) ==
    CdrDistance(cdr1_1, cdr1_2, 4) + CdrDistance(cdr2_1, cdr2_2, 4)
        + 3 * CdrDistance(cdr3_1, cdr3_2, 8)

\* tcrdist: the sum of the two chain distances, as f64
tcrdist(tcr1, tcr2) ==
    Rat(chain_distance(tcr1.cdr1_a_aa, tcr1.cdr2_a_aa, tcr1.cdr3_a_aa,
                       tcr2.cdr1_a_aa, tcr2.cdr2_a_aa, tcr2.cdr3_a_aa)
          + chain_distance(tcr1.cdr1_b_aa, tcr1.cdr2_b_aa, tcr1.cdr3_b_aa,
                           tcr2.cdr1_b_aa, tcr2.cdr2_b_aa, tcr2.cdr3_b_aa), 1)

----------------------------------------------------------------------------
(* database.rs and lib.rs: the corpus filters *)

\* u8::to_ascii_lowercase
ToAsciiLowerByte(b) == IF b >= 65 /\ b <= 90 THEN b + 32 ELSE b

\* a comparison of the bytes as they are
eq_exact_case(a, b) == a = b

\* str::eq_ignore_ascii_case
eq_ignore_ascii_case(a, b) ==
    /\ Len(a) = Len(b)
    /\ \A i \in 1..Len(a) : ToAsciiLowerByte(a[i]) = ToAsciiLowerByte(b[i])

matches_species(entry, species) == eq_ignore_ascii_case(entry.species, species)

matches_gene(entry, gene) == eq_ignore_ascii_case(entry.gene, gene)

matches_vdjdb_score(entry, min_score) == entry.vdjdb_score >= min_score

\* the closure of Database::filter on one entry
FilterKeeps(entry, species, gene, min_vdjdb_score) ==
    /\ species.some => matches_species(entry, species.val)
    /\ gene.some => matches_gene(entry, gene.val)
    /\ matches_vdjdb_score(entry, min_vdjdb_score)

\* Database::filter: the entries of the database returned
filter(entries, species, gene, min_vdjdb_score) ==
    SelectSeq(entries, LAMBDA entry : FilterKeeps(entry, species, gene, min_vdjdb_score))

\* a usize (64 bits) as its four 16-bit limbs, the most significant first
Limb == 2 ^ 16

UsizeOfNat(n) == <<0, 0, n \div Limb, n % Limb>>

\* `m as usize` of an i32 m: the sign is extended, the bits are kept
I32AsUsize(m) ==
    IF m >= 0 THEN UsizeOfNat(m)
    ELSE <<Limb - 1, Limb - 1, Limb - 1 - ((-(m + 1)) \div Limb),
           Limb - 1 - ((-(m + 1)) % Limb)>>

\* `m as u8` of an i32 m: the low eight bits
I32AsU8(m) == m % 256

\* a >= b on two usize
RECURSIVE UsizeGeFrom(_, _, _)
UsizeGeFrom(a, b, k) ==
    IF k > Len(a) THEN TRUE
    ELSE IF a[k] # b[k] THEN a[k] > b[k]
    ELSE UsizeGeFrom(a, b, k + 1)

UsizeGe(a, b) == UsizeGeFrom(a, b, 1)

\* the number of distinct CDR3 strings the entries of an epitope carry
UniqueCdr3Count(entries, epitope) ==
    Cardinality({entries[i].cdr3 : i \in {k \in 1..Len(entries) :
                                            entries[k].antigen_epitope = epitope}})

\* the value of epitope_counts for one epitope after the counting loop
EntryCount(entries, epitope) ==
    Cardinality({i \in 1..Len(entries) : entries[i].antigen_epitope = epitope})

\* the map epitope_counts of filter_by_epitope_size
epitope_counts(entries) ==
    [epitope \in {entries[i].antigen_epitope : i \in 1..Len(entries)} |->
        EntryCount(entries, epitope)]

\* the closure of filter_by_epitope_size on one entry
EpitopeSizeKeeps(entry, counts, min_size) ==
    IF entry.antigen_epitope \in DOMAIN counts
    THEN UsizeGe(UsizeOfNat(counts[entry.antigen_epitope]), min_size)
    ELSE FALSE

\* Database::filter_by_epitope_size: the entries of the database returned
filter_by_epitope_size(entries, min_size) ==
    SelectSeq(entries, LAMBDA entry : EpitopeSizeKeeps(entry, epitope_counts(entries), min_size))

\* RDatabase::filter
RDatabaseFilter(entries, species, gene, min_vdjdb_score) ==
    filter(entries, species, gene, I32AsU8(min_vdjdb_score))

\* RDatabase::filter_by_epitope_size
RDatabaseFilterByEpitopeSize(entries, min_size) ==
    filter_by_epitope_size(entries, I32AsUsize(min_size))

\* char::is_whitespace on an ASCII byte
IsWhitespace(b) == b = 32 \/ (b >= 9 /\ b <= 13)

\* s.trim().is_empty()
TrimIsEmpty(s) == \A i \in 1..Len(s) : IsWhitespace(s[i])

\* Option::filter(|s| !s.trim().is_empty())
NonBlank(opt) == IF opt.some /\ TrimIsEmpty(opt.val) THEN None ELSE opt

\* filter_db of the R interface
filter_db(entries, species, gene, min_vdjdb_score) ==
    RDatabaseFilter(entries, NonBlank(species), NonBlank(gene), min_vdjdb_score)

\* filter_db_by_epitope_size of the R interface
filter_db_by_epitope_size(entries, min_size) ==
    RDatabaseFilterByEpitopeSize(entries, min_size)

----------------------------------------------------------------------------
(* sequence.rs and lib.rs: SearchScope::parse and the scope of match_tcr *)

\* Result::Ok and Result::Err
Ok(x) == [ok |-> TRUE, val |-> x]

Err(e) == [ok |-> FALSE, err |-> e]

\* s.split(','), were the comma kept at the head of the part that follows it
RECURSIVE SplitKeepingComma(_, _, _, _)
SplitKeepingComma(s, k, parts, part) ==
    IF k > Len(s) THEN Append(parts, part)
    ELSE IF s[k] = 44 THEN SplitKeepingComma(s, k + 1, Append(parts, part), <<44>>)
    ELSE SplitKeepingComma(s, k + 1, parts, Append(part, s[k]))

\* s.split(','): the parts in order; a string without a comma is one part
RECURSIVE SplitFrom(_, _, _, _)
SplitFrom(s, k, parts, part) ==
    IF k > Len(s) THEN Append(parts, part)
    ELSE IF s[k] = 44 THEN SplitFrom(s, k + 1, Append(parts, part), <<>>)
    ELSE SplitFrom(s, k + 1, parts, Append(part, s[k]))

SplitComma(s) == SplitFrom(s, 1, <<>>, <<>>)

\* the limbs of 10 * u + digit, given the sums of the four limb positions
CarriedLimbs(t1, t2, t3, t4) ==
    IF t1 \div Limb > 0 THEN None
    ELSE Some(<<t1 % Limb, t2 % Limb, t3 % Limb, t4 % Limb>>)

CarryInto3(u, t2, t3, t4) == CarriedLimbs(u[1] * 10 + t2 \div Limb, t2, t3, t4)

CarryInto2(u, t3, t4) == CarryInto3(u, u[2] * 10 + t3 \div Limb, t3, t4)

CarryInto1(u, t4) == CarryInto2(u, u[3] * 10 + t4 \div Limb, t4)

\* result.checked_mul(10) and then checked_add(digit) on a usize: None on overflow
Times10Plus(u, digit) == CarryInto1(u, u[4] * 10 + digit)

\* the digit loop of usize::from_str
RECURSIVE ParseDigits(_, _, _)
ParseDigits(s, k, acc) ==
    IF k > Len(s) THEN Ok(acc)
    ELSE IF s[k] < 48 \/ s[k] > 57 THEN Err("InvalidDigit")
    ELSE IF ~Times10Plus(acc, s[k] - 48).some THEN Err("PosOverflow")
    ELSE ParseDigits(s, k + 1, Times10Plus(acc, s[k] - 48).val)

\* str::parse::<usize>: one '+' may lead, no '-', no blank, at least one digit
ParseUsize(s) ==
    IF Len(s) = 0 THEN Err("Empty")
    ELSE IF Len(s) = 1 /\ s[1] \in {43, 45} THEN Err("InvalidDigit")
    ELSE IF s[1] = 43 THEN ParseDigits(s, 2, UsizeOfNat(0))
    ELSE ParseDigits(s, 1, UsizeOfNat(0))

\* the arm `3 =>` of parse, given what the three parts parse to
ScopeOfThree(substitutions, indels, total) ==
    IF ~substitutions.ok THEN Err("Invalid substitutions")
    ELSE IF ~indels.ok THEN Err("Invalid indels")
    ELSE IF ~total.ok THEN Err("Invalid total")
    ELSE Ok([substitutions |-> substitutions.val, insertions |-> indels.val,
             deletions |-> indels.val, total |-> total.val])

\* the arm `4 =>` of parse, given what the four parts parse to
ScopeOfFour(substitutions, insertions, deletions, total) ==
    IF ~substitutions.ok THEN Err("Invalid substitutions")
    ELSE IF ~insertions.ok THEN Err("Invalid insertions")
    ELSE IF ~deletions.ok THEN Err("Invalid deletions")
    ELSE IF ~total.ok THEN Err("Invalid total")
    ELSE Ok([substitutions |-> substitutions.val, insertions |-> insertions.val,
             deletions |-> deletions.val, total |-> total.val])

\* parse, given the parts of the string
ParseParts(parts) ==
    IF Len(parts) = 3
    THEN ScopeOfThree(ParseUsize(parts[1]), ParseUsize(parts[2]), ParseUsize(parts[3]))
    ELSE IF Len(parts) = 4
    THEN ScopeOfFour(ParseUsize(parts[1]), ParseUsize(parts[2]), ParseUsize(parts[3]),
                     ParseUsize(parts[4]))
    ELSE Err("Invalid search scope format")

\* SearchScope::parse
SearchScopeParse(s) == ParseParts(SplitComma(s))

\* a usize as the matcher's number; the distances of the matcher are far below
\* 2^31 - 1, and a limit beyond it is held as 2^31 - 1
UsizeToNat(u) ==
    IF u[1] = 0 /\ u[2] = 0 /\ u[3] < 2 ^ 15 THEN u[3] * Limb + u[4]
    ELSE 2147483647

\* SearchScope::parse(scope).unwrap_or(SearchScope::EXACT)
ParseOrExact(scope) ==
    IF SearchScopeParse(scope).ok
    THEN [f \in DOMAIN EXACT |-> UsizeToNat(SearchScopeParse(scope).val[f])]
    ELSE EXACT

\* the top_n argument of the R interface: `if top_n > 0 { Some(top_n as usize) }`
TopNOf(top_n) == IF top_n > 0 THEN Some(top_n) ELSE None

\* the MatchConfig match_tcr builds
MatchTcrConfig(v_segment, j_segment, scope, top_n) ==
    [DefaultConfig EXCEPT !.search_scope = ParseOrExact(scope),
                          !.match_v = Len(v_segment) # 0,
                          !.match_j = Len(j_segment) # 0,
                          !.top_n_hits = TopNOf(top_n)]

\* the MatchConfig match_tcr_many builds
MatchTcrManyConfig(scope, top_n) ==
    [DefaultConfig EXCEPT !.search_scope = ParseOrExact(scope),
                          !.match_v = TRUE,
                          !.match_j = TRUE,
                          !.top_n_hits = TopNOf(top_n)]

\* one row of the columns returned to R
RowOf(m) ==
    [cdr3_db |-> m.db_entry.cdr3, v_db |-> m.db_entry.v_segment,
     j_db |-> m.db_entry.j_segment, antigen_epitope |-> m.db_entry.antigen_epitope,
     score |-> m.score, cdr3_score |-> m.cdr3_alignment_score, v_score |-> m.v_score,
     j_score |-> m.j_score, edit_distance |-> m.edit_distance]

\* the rows of the hits of one query
RowsOf(hits) == [k \in 1..Len(hits) |-> RowOf(hits[k])]

\* the columns of match_tcr, given what match_clonotype did
MatchTcrColumns(r) ==
    [panicked |-> r.panicked, rows |-> IF r.panicked THEN <<>> ELSE RowsOf(r.v)]

\* match_tcr of the R interface
match_tcr(db, cdr3, v_segment, j_segment, scope, top_n) ==
    MatchTcrColumns(match_clonotype(ClonotypeNew(cdr3, v_segment, j_segment), db,
                                    MatchTcrConfig(v_segment, j_segment, scope, top_n)))

\* the rows of query i of match_tcr_many, with the query's 1-based index
IndexedRows(i, q, hits) ==
    [k \in 1..Len(hits) |->
        [query_index |-> i, query_cdr3 |-> q.cdr3_aa, query_v |-> q.v_segment,
         query_j |-> q.j_segment, hit |-> RowOf(hits[k])]]

\* the flattening loop of match_tcr_many from query i on
RECURSIVE Flatten(_, _, _, _)
Flatten(clonotypes, all_matches, i, rows) ==
    IF i > Len(clonotypes) THEN rows
    ELSE Flatten(clonotypes, all_matches, i + 1,
                 rows \o IndexedRows(i, clonotypes[i], all_matches[i].v))

\* the columns of match_tcr_many, given the clonotypes and what the matcher did
MatchTcrManyColumns(clonotypes, all_matches) ==
    IF \E i \in 1..Len(all_matches) : all_matches[i].panicked
    THEN [panicked |-> TRUE, rows |-> <<>>]
    ELSE [panicked |-> FALSE, rows |-> Flatten(clonotypes, all_matches, 1, <<>>)]

\* match_clonotypes_parallel: the result of query i is at position i
MatchAll(clonotypes, db, cfg) ==
    [i \in 1..Len(clonotypes) |-> match_clonotype(clonotypes[i], db, cfg)]

\* the clonotypes match_tcr_many builds from its three vectors
ClonotypesOf(cdr3, v_segment, j_segment) ==
    [i \in 1..Len(cdr3) |-> ClonotypeNew(cdr3[i], v_segment[i], j_segment[i])]

\* match_tcr_many past its length check
MatchMany(db, clonotypes, scope, top_n) ==
    MatchTcrManyColumns(clonotypes, MatchAll(clonotypes, db, MatchTcrManyConfig(scope, top_n)))

\* match_tcr_many of the R interface
match_tcr_many(db, cdr3, v_segment, j_segment, scope, top_n) ==
    IF ~(Len(cdr3) = Len(v_segment) /\ Len(v_segment) = Len(j_segment))
    THEN Err("cdr3, v_segment, j_segment must have equal length")
    ELSE Ok(MatchMany(db, ClonotypesOf(cdr3, v_segment, j_segment), scope, top_n))

----------------------------------------------------------------------------
(* filtering.rs: the text filters on the columns of an entry *)

\* an equality filter that reads antigen.gene as well
ExactFilterReadingAntigenGene(column, value, entry) ==
    CASE column = "species" -> eq_ignore_ascii_case(entry.species, value)
      [] column = "gene" -> eq_ignore_ascii_case(entry.gene, value)
      [] column = "antigen.species" -> eq_ignore_ascii_case(entry.antigen_species, value)
      [] column = "antigen.epitope" -> eq_ignore_ascii_case(entry.antigen_epitope, value)
      [] column = "antigen.gene" ->
            entry.antigen_gene.some /\ eq_ignore_ascii_case(entry.antigen_gene.val, value)
      [] OTHER -> FALSE

\* ExactFilter::matches
ExactFilterMatches(column, value, entry) ==
    CASE column = "species" -> eq_ignore_ascii_case(entry.species, value)
      [] column = "gene" -> eq_ignore_ascii_case(entry.gene, value)
      [] column = "antigen.species" -> eq_ignore_ascii_case(entry.antigen_species, value)
      [] column = "antigen.epitope" -> eq_ignore_ascii_case(entry.antigen_epitope, value)
      [] OTHER -> FALSE

\* the literal of a pattern: the pattern without a leading '^' and a trailing '$'
PatternLiteral(pattern) ==
    SubSeq(pattern,
           IF Len(pattern) > 0 /\ pattern[1] = 94 THEN 2 ELSE 1,
           IF Len(pattern) > 0 /\ pattern[Len(pattern)] = 36 THEN Len(pattern) - 1
           ELSE Len(pattern))

\* the literal is found in text at position k
FoundAt(literal, text, k) ==
    /\ k + Len(literal) - 1 <= Len(text)
    /\ \A i \in 1..Len(literal) : text[k + i - 1] = literal[i]

\* Regex::is_match for a pattern of literal bytes, anchored by '^' or '$' or not:
\* the search is for a match anywhere in the text
is_match(pattern, text) ==
    \E k \in 1..(Len(text) + 1) :
        /\ FoundAt(PatternLiteral(pattern), text, k)
        /\ (Len(pattern) > 0 /\ pattern[1] = 94) => k = 1
        /\ (Len(pattern) > 0 /\ pattern[Len(pattern)] = 36) =>
              k + Len(PatternLiteral(pattern)) - 1 = Len(text)

\* the text RegexFilter::matches selects, or None where it returns false
RegexFilterText(column, entry) ==
    CASE column = "species" -> Some(entry.species)
      [] column = "gene" -> Some(entry.gene)
      [] column = "antigen.species" -> Some(entry.antigen_species)
      [] column = "antigen.epitope" -> Some(entry.antigen_epitope)
      [] column = "antigen.gene" -> entry.antigen_gene
      [] OTHER -> None

\* RegexFilter::matches
RegexFilterMatches(column, pattern, entry) ==
    IF RegexFilterText(column, entry).some
    THEN is_match(pattern, RegexFilterText(column, entry).val)
    ELSE FALSE

----------------------------------------------------------------------------
(* The inputs of the matcher *)

\* segment identifiers: "V1", "V1*01", "J1"
SegV1 == <<86, 49>>

SegV1Allele == <<86, 49, 42, 48, 49>>

SegJ1 == <<74, 49>>

\* epitopes: "G", "N"
Epitopes == {<<71>>, <<78>>}

\* the reference entries a database file can hold
EntryPool ==
    [cdr3 : Strings, v_segment : {SegV1Allele}, j_segment : {SegJ1},
     antigen_epitope : Epitopes]

\* the search scopes handed to the matcher: total alone is varied
Scopes == {[EXACT EXCEPT !.total = t] : t \in 0..MaxTotal}

Thresholds == {None, Some(Rat(1, 2))}

TopNs == {None} \cup {Some(n) : n \in 1..MaxTopN}

\* use_vdjmatch_scoring and scoring_mode
ScoringKinds == {<<FALSE, 1>>, <<TRUE, 1>>, <<TRUE, 2>>}

ConfigPool ==
    {[DefaultConfig EXCEPT !.search_scope = sc,
                           !.match_v = mv,
                           !.use_vdjmatch_scoring = sk[1],
                           !.scoring_mode = sk[2],
                           !.score_threshold = th,
                           !.max_hits_only = mh,
                           !.top_n_hits = tn,
                           !.weight_by_informativeness = wi] :
        sc \in Scopes, mv \in {FALSE}, sk \in ScoringKinds, th \in Thresholds,
        mh \in BOOLEAN, tn \in TopNs, wi \in BOOLEAN}

NoAlignment == None

NoScores == None

KernelIdle ==
    /\ seq_query = <<>>
    /\ seq_target = <<>>
    /\ alignment = NoAlignment
    /\ scores = NoScores
    /\ distance = None

SegmentIdle == seg_scores = None

\* a TCR none of whose CDRs is given
NoTcr ==
    [cdr1_a_aa |-> None, cdr2_a_aa |-> None, cdr3_a_aa |-> None,
     cdr1_b_aa |-> None, cdr2_b_aa |-> None, cdr3_b_aa |-> None]

TcrIdle ==
    /\ tcr_first = NoTcr
    /\ tcr_second = NoTcr
    /\ tcr_distance = None

Workers == 1..NumWorkers

BatchIdle ==
    /\ batch_queries = <<>>
    /\ batch_taken = {}
    /\ batch_worker = [w \in Workers |-> 0]
    /\ batch_slots = <<>>
    /\ batch_done = 0
    /\ batch_output = None

FilterIdle ==
    /\ corpus = <<>>
    /\ filter_call = None
    /\ filtered = None

ScopeIdle ==
    /\ scope_string = <<>>
    /\ scope_result = None

TextIdle ==
    /\ text_entry = None
    /\ text_check = None

MatcherIdle ==
    /\ database = <<>>
    /\ clonotype = ClonotypeNew(<<>>, <<>>, <<>>)
    /\ config = DefaultConfig
    /\ matches = <<>>
    /\ outcome = "none"

----------------------------------------------------------------------------
(* Spec: a database is loaded entry by entry, then one query is matched *)

Init ==
    MatcherIdle /\ KernelIdle /\ BatchIdle /\ SegmentIdle /\ TcrIdle /\ FilterIdle /\ ScopeIdle
    /\ TextIdle

\* Database::load_from_file: one record is parsed and pushed
LoadEntry(entry) ==
    /\ outcome = "none"
    /\ Len(database) < MaxEntries
    /\ database' = Append(database, entry)
    /\ UNCHANGED <<filter_vars, scope_vars, text_vars,
                   clonotype, config, matches, outcome, kernel_vars, batch_vars, segment_vars,
                   tcr_vars>>

\* the call match_clonotype(q, database, cfg) ends with r
CallEnds(q, cfg, r) ==
    /\ clonotype' = q
    /\ config' = cfg
    /\ matches' = r.v
    /\ outcome' = IF r.panicked THEN "panicked" ELSE "returned"

\* the call of match_clonotype on the clonotype q
Call(q, cfg) == CallEnds(q, cfg, match_clonotype(q, database, cfg))

\* a call of match_clonotype on a clonotype built by Clonotype::new
MatchClonotype(cdr3, v_segment, j_segment, cfg) ==
    /\ outcome = "none"
    /\ Call(ClonotypeNew(cdr3, v_segment, j_segment), cfg)
    /\ UNCHANGED <<filter_vars, scope_vars, text_vars,
                   database, kernel_vars, batch_vars, segment_vars, tcr_vars>>

Next ==
    \/ \E entry \in EntryPool : LoadEntry(entry)
    \/ \E cdr3 \in Strings, cfg \in ConfigPool : MatchClonotype(cdr3, SegV1, SegJ1, cfg)

Spec == Init /\ [][Next]_vars

----------------------------------------------------------------------------
(* SpecScore: one pair of strings is aligned, then scored *)

InitScore ==
    /\ FilterIdle
    /\ ScopeIdle
    /\ TextIdle
    /\ MatcherIdle
    /\ BatchIdle
    /\ SegmentIdle
    /\ TcrIdle
    /\ seq_query \in KernelStrings
    /\ seq_target \in KernelStrings
    /\ alignment = NoAlignment
    /\ scores = NoScores
    /\ distance = None

\* align(seq_query, seq_target)
Align ==
    /\ alignment = NoAlignment
    /\ alignment' = Some(align(seq_query, seq_target))
    /\ UNCHANGED <<filter_vars, scope_vars, text_vars,
                   matcher_vars, batch_vars, segment_vars, tcr_vars, seq_query, seq_target,
                   scores, distance>>

\* the three scores of the alignment
Score ==
    /\ alignment.some
    /\ scores = NoScores
    /\ scores' = Some([raw |-> compute_alignment_score(alignment.val),
                       normalized |-> compute_normalized_score(alignment.val),
                       simple |-> simple_mismatch_score(alignment.val)])
    /\ UNCHANGED <<filter_vars, scope_vars, text_vars,
                   matcher_vars, batch_vars, segment_vars, tcr_vars, seq_query, seq_target,
                   alignment, distance>>

\* edit_distance(seq_query, seq_target)
EditDistance ==
    /\ distance = None
    /\ distance' = Some(edit_distance(seq_query, seq_target))
    /\ UNCHANGED <<filter_vars, scope_vars, text_vars,
                   matcher_vars, batch_vars, segment_vars, tcr_vars, seq_query, seq_target,
                   alignment, scores>>

NextScore == Align \/ Score \/ EditDistance

SpecScore == InitScore /\ [][NextScore]_vars

----------------------------------------------------------------------------
(* SpecPar: match_clonotypes_parallel on a pool of worker threads *)

\* the reference entry with CDR3 'A' repeated n times
EntryOfLength(n) ==
    [cdr3 |-> [i \in 1..n |-> 65], v_segment |-> SegV1Allele, j_segment |-> SegJ1,
     antigen_epitope |-> <<71>>]

\* the corpus of a batch: the CDR3s "", "A", "AA", ...
BatchDatabase == [k \in 1..(MaxLen + 1) |-> EntryOfLength(k - 1)]

\* the configs match_tcr_many builds: both segment gates on, scope and top_n given
BatchConfigs ==
    {[DefaultConfig EXCEPT !.search_scope = sc, !.match_v = TRUE, !.match_j = TRUE,
                           !.top_n_hits = tn] :
        sc \in Scopes, tn \in {None, Some(1)}}

QueryPool == {ClonotypeNew(cdr3, SegV1, SegJ1) : cdr3 \in Strings}

InitPar ==
    /\ FilterIdle
    /\ ScopeIdle
    /\ TextIdle
    /\ KernelIdle
    /\ SegmentIdle
    /\ TcrIdle
    /\ database = BatchDatabase
    /\ config \in BatchConfigs
    /\ clonotype = ClonotypeNew(<<>>, <<>>, <<>>)
    /\ matches = <<>>
    /\ outcome = "none"
    /\ batch_queries \in UNION {[1..n -> QueryPool] : n \in 0..MaxQueries}
    /\ batch_taken = {}
    /\ batch_worker = [w \in Workers |-> 0]
    /\ batch_slots = [i \in 1..Len(batch_queries) |-> None]
    /\ batch_done = 0
    /\ batch_output = None

\* a worker takes a query no worker has taken yet
Take(w, i) ==
    /\ batch_output = None
    /\ batch_worker[w] = 0
    /\ i \in (1..Len(batch_queries)) \ batch_taken
    /\ batch_taken' = batch_taken \cup {i}
    /\ batch_worker' = [batch_worker EXCEPT ![w] = i]
    /\ UNCHANGED <<filter_vars, scope_vars, text_vars,
                   matcher_vars, kernel_vars, segment_vars, tcr_vars, batch_queries,
                   batch_slots, batch_done, batch_output>>

\* a collect in completion order: the done-th result at index done
CompletionIndex(i, done) == done

\* where the collect of an indexed parallel iterator puts the result of item
\* i, the done-th item to complete: at index i
CollectIndex(i, done) == i

\* a worker ends its call of match_clonotype and hands the result to the collect
Finish(w) ==
    /\ batch_output = None
    /\ batch_worker[w] # 0
    /\ LET i == batch_worker[w]
           r == match_clonotype(batch_queries[i], database, config)
       IN  batch_slots' = [batch_slots EXCEPT ![CollectIndex(i, batch_done + 1)] = Some(r)]
    /\ batch_done' = batch_done + 1
    /\ batch_worker' = [batch_worker EXCEPT ![w] = 0]
    /\ UNCHANGED <<filter_vars, scope_vars, text_vars,
                   matcher_vars, kernel_vars, segment_vars, tcr_vars, batch_queries,
                   batch_taken, batch_output>>

\* every query is matched: the call returns the vector, or resumes the panic
\* of a worker
Collect ==
    /\ batch_output = None
    /\ batch_done = Len(batch_queries)
    /\ batch_output' =
          IF \E i \in 1..Len(batch_slots) : batch_slots[i].some /\ batch_slots[i].val.panicked
          THEN Some([panicked |-> TRUE, v |-> <<>>])
          ELSE Some([panicked |-> FALSE,
                     v |-> [i \in 1..Len(batch_slots) |-> batch_slots[i].val.v]])
    /\ UNCHANGED <<filter_vars, scope_vars, text_vars,
                   matcher_vars, kernel_vars, segment_vars, tcr_vars, batch_queries,
                   batch_taken, batch_worker, batch_slots, batch_done>>

NextPar ==
    \/ \E w \in Workers, i \in 1..MaxQueries : Take(w, i)
    \/ \E w \in Workers : Finish(w)
    \/ Collect

SpecPar == InitPar /\ [][NextPar]_vars

----------------------------------------------------------------------------
(* SpecSeg: one query is matched against a database whose entries differ in *)
(* their V and J segments, or segment_match_score is called on a query      *)
(* segment and the V segment of an entry                                    *)

\* segment identifiers: "V2", "V1*02", "*01", "J2*01"
SegV2 == <<86, 50>>

SegV1Other == <<86, 49, 42, 48, 50>>

SegAlleleOnly == <<42, 48, 49>>

SegJ2Allele == <<74, 50, 42, 48, 49>>

EntrySegVs == {<<>>, SegV1, SegV1Allele, SegV2}

EntrySegJs == {SegJ1, SegJ2Allele}

QuerySegVs == {<<>>, SegV1, SegV1Other, SegAlleleOnly}

QuerySegJs == {<<>>, SegJ1}

\* reference entries with CDR3 "A" or "S"
SegEntryPool ==
    [cdr3 : {<<65>>, <<83>>}, v_segment : EntrySegVs, j_segment : EntrySegJs,
     antigen_epitope : {<<71>>}]

SegConfigs ==
    {[DefaultConfig EXCEPT !.search_scope = sc,
                           !.match_v = mv,
                           !.match_j = mj,
                           !.use_vdjmatch_scoring = sk[1],
                           !.scoring_mode = sk[2]] :
        sc \in Scopes, mv \in BOOLEAN, mj \in BOOLEAN, sk \in ScoringKinds}

InitSeg ==
    /\ FilterIdle
    /\ ScopeIdle
    /\ TextIdle
    /\ KernelIdle
    /\ BatchIdle
    /\ SegmentIdle
    /\ TcrIdle
    /\ database \in UNION {[1..n -> SegEntryPool] : n \in 1..MaxEntries}
    /\ clonotype = ClonotypeNew(<<>>, <<>>, <<>>)
    /\ config = DefaultConfig
    /\ matches = <<>>
    /\ outcome = "none"

\* match_clonotype on the query with CDR3 "A" and the segments given
MatchSegments(v_segment, j_segment, cfg) ==
    /\ seg_scores = None
    /\ MatchClonotype(<<65>>, v_segment, j_segment, cfg)

\* segment_match_score on a query segment and the V segment of entry k
SegmentScore(query_segment, k, normalize) ==
    /\ outcome = "none"
    /\ seg_scores = None
    /\ k \in 1..Len(database)
    /\ seg_scores' =
          Some([query_segment |-> query_segment,
                db_segment |-> database[k].v_segment,
                normalize |-> normalize,
                score |-> segment_match_score(query_segment, database[k].v_segment,
                                              normalize)])
    /\ UNCHANGED <<filter_vars, scope_vars, text_vars,
                   matcher_vars, kernel_vars, batch_vars, tcr_vars>>

NextSeg ==
    \/ \E v \in QuerySegVs, j \in QuerySegJs, cfg \in SegConfigs : MatchSegments(v, j, cfg)
    \/ \E q \in QuerySegVs, k \in 1..MaxEntries, n \in BOOLEAN : SegmentScore(q, k, n)

SpecSeg == InitSeg /\ [][NextSeg]_vars

----------------------------------------------------------------------------
(* SpecTcr: tcrdist on one pair of TCRs *)

\* longest CDR string of a TCR
MaxCdrLen == 2

\* CDR bytes: 'A', 'R' and 'X', which is no amino acid of the table
TcrAlphabet == {65, 82, 88}

TcrStrings == UNION {[1..n -> TcrAlphabet] : n \in 0..MaxCdrLen}

\* a CDR is missing or given
CdrPool == {None} \cup {Some(str) : str \in TcrStrings}

\* TCRs that vary in CDR1 alpha, CDR2 beta and CDR3 beta
TcrPool ==
    {TCRNew(c1, None, None, None, c2, c3) :
        c1 \in CdrPool, c2 \in {None, Some(<<65>>)}, c3 \in CdrPool}

InitTcr ==
    /\ FilterIdle
    /\ ScopeIdle
    /\ TextIdle
    /\ MatcherIdle
    /\ KernelIdle
    /\ BatchIdle
    /\ SegmentIdle
    /\ tcr_first \in TcrPool
    /\ tcr_second \in TcrPool
    /\ tcr_distance = None

\* tcrdist(tcr_first, tcr_second)
Tcrdist ==
    /\ tcr_distance = None
    /\ tcr_distance' = Some(tcrdist(tcr_first, tcr_second))
    /\ UNCHANGED <<filter_vars, scope_vars, text_vars,
                   matcher_vars, kernel_vars, batch_vars, segment_vars, tcr_first,
                   tcr_second>>

NextTcr == Tcrdist

SpecTcr == InitTcr /\ [][NextTcr]_vars

----------------------------------------------------------------------------
(* SpecDb: one filter is applied to a source database *)

\* most entries of the source database
MaxCorpus == 3

\* species: "Hs", "Mm"; as filter arguments: "hs", "MM", " "
SpeciesHs == <<72, 115>>

SpeciesMm == <<77, 109>>

\* genes: "TRB", "TRA"; as a filter argument: "trb"
GeneTRB == <<84, 82, 66>>

GeneTRA == <<84, 82, 65>>

\* the entries of the source database: they differ in the columns Database::filter
\* reads, or in the columns filter_by_epitope_size and its documentation name
FilterEntryPool ==
    [species : {SpeciesHs, SpeciesMm}, gene : {GeneTRB, GeneTRA}, vdjdb_score : {0, 2},
     antigen_epitope : {<<71>>}, cdr3 : {<<65>>}]
    \cup
    [species : {SpeciesHs}, gene : {GeneTRB}, vdjdb_score : {0},
     antigen_epitope : Epitopes, cdr3 : {<<65>>, <<83>>}]

SpeciesArgs == {None, Some(<<104, 115>>), Some(<<77, 77>>)}

GeneArgs == {None, Some(<<116, 114, 98>>)}

\* the min_vdjdb_score arguments of Database::filter (u8)
MinScores == {0, 1, 2, 3}

\* the species and gene arguments of filter_db: NULL, a name, a blank string
BindingSpeciesArgs == {None, Some(<<104, 115>>), Some(<<32>>)}

\* the min_vdjdb_score arguments of filter_db (i32)
BindingMinScores == {-1, 0, 2, 256, 258}

\* the min_size arguments of filter_db_by_epitope_size (i32)
BindingMinSizes == -1..MaxCorpus

InitDb ==
    /\ MatcherIdle
    /\ KernelIdle
    /\ BatchIdle
    /\ SegmentIdle
    /\ TcrIdle
    /\ ScopeIdle
    /\ TextIdle
    /\ corpus \in UNION {[1..n -> FilterEntryPool] : n \in 0..MaxCorpus}
    /\ filter_call = None
    /\ filtered = None

\* the call and its result are recorded; the source database is left as it is
FilterReturns(call, entries) ==
    /\ filter_call = None
    /\ filter_call' = Some(call)
    /\ filtered' = Some(entries)
    /\ UNCHANGED <<corpus, matcher_vars, kernel_vars, batch_vars, segment_vars, tcr_vars,
                   scope_vars, text_vars>>

\* Database::filter(species, gene, min_vdjdb_score) on the source database
Filter(species, gene, min_vdjdb_score) ==
    FilterReturns([op |-> "filter", species |-> species, gene |-> gene,
                   min_vdjdb_score |-> min_vdjdb_score],
                  filter(corpus, species, gene, min_vdjdb_score))

\* Database::filter_by_epitope_size(min_size) on the source database
FilterByEpitopeSize(min_size) ==
    FilterReturns([op |-> "filter_by_epitope_size", min_size |-> min_size],
                  filter_by_epitope_size(corpus, UsizeOfNat(min_size)))

\* filter_db(db, species, gene, min_vdjdb_score) of the R interface
FilterDb(species, gene, min_vdjdb_score) ==
    FilterReturns([op |-> "filter_db", species |-> species, gene |-> gene,
                   min_vdjdb_score |-> min_vdjdb_score],
                  filter_db(corpus, species, gene, min_vdjdb_score))

\* filter_db_by_epitope_size(db, min_size) of the R interface
FilterDbByEpitopeSize(min_size) ==
    FilterReturns([op |-> "filter_db_by_epitope_size", min_size |-> min_size],
                  filter_db_by_epitope_size(corpus, min_size))

NextDb ==
    \/ \E species \in SpeciesArgs, gene \in GeneArgs, min_vdjdb_score \in MinScores :
          Filter(species, gene, min_vdjdb_score)
    \/ \E min_size \in 0..(MaxCorpus + 1) : FilterByEpitopeSize(min_size)
    \/ \E species \in BindingSpeciesArgs, gene \in GeneArgs,
          min_vdjdb_score \in BindingMinScores :
          FilterDb(species, gene, min_vdjdb_score)
    \/ \E min_size \in BindingMinSizes : FilterDbByEpitopeSize(min_size)

SpecDb == InitDb /\ [][NextDb]_vars

----------------------------------------------------------------------------
(* SpecScope: a scope string is parsed, or handed to match_tcr or to *)
(* match_tcr_many                                                    *)

\* most comma-separated parts of a scope string built from every token
MaxParts == 4

\* the decimal digits d as a string
Numeral(d) == [i \in 1..Len(d) |-> 48 + d[i]]

\* "18446744073709551615", the largest usize, and the number after it
UsizeMaxString == Numeral(<<1, 8, 4, 4, 6, 7, 4, 4, 0, 7, 3, 7, 0, 9, 5, 5, 1, 6, 1, 5>>)

UsizeOverString == Numeral(<<1, 8, 4, 4, 6, 7, 4, 4, 0, 7, 3, 7, 0, 9, 5, 5, 1, 6, 1, 6>>)

\* the parts of a scope string: "", "0", "1", "+2", "-1", " 1", and the two above
ScopeTokens ==
    {<<>>, <<48>>, <<49>>, <<43, 50>>, <<45, 49>>, <<32, 49>>, UsizeMaxString,
     UsizeOverString}

\* the parts joined by commas
RECURSIVE JoinComma(_)
JoinComma(parts) ==
    IF Len(parts) = 1 THEN parts[1]
    ELSE parts[1] \o <<44>> \o JoinComma(Tail(parts))

\* the scope strings: up to MaxParts parts of any kind, or one part more of "0", "1"
ScopeStrings ==
    {JoinComma(parts) : parts \in UNION {[1..n -> ScopeTokens] : n \in 1..MaxParts}}
    \cup {JoinComma(parts) : parts \in [1..(MaxParts + 1) -> {<<48>>, <<49>>}]}

\* the database match_tcr searches: CDR3 "A" and CDR3 "AA"
ScopeDatabase ==
    <<[cdr3 |-> <<65>>, v_segment |-> SegV1Allele, j_segment |-> SegJ1,
       antigen_epitope |-> <<71>>],
      [cdr3 |-> <<65, 65>>, v_segment |-> SegV1Allele, j_segment |-> SegJ1,
       antigen_epitope |-> <<78>>]>>

\* the vectors of match_tcr_many: two queries, or vectors of unequal length
ManyCdr3 == {<<<<65>>, <<65, 65>>>>, <<<<65>>>>}

ManySegV == <<SegV1, <<>>>>

ManySegJ == <<SegJ1, SegJ1>>

InitScope ==
    /\ MatcherIdle
    /\ KernelIdle
    /\ BatchIdle
    /\ SegmentIdle
    /\ TcrIdle
    /\ FilterIdle
    /\ TextIdle
    /\ scope_string \in ScopeStrings
    /\ scope_result = None

\* the call and what it returned are recorded
ScopeCallReturns(call) ==
    /\ scope_result = None
    /\ scope_result' = Some(call)
    /\ UNCHANGED <<scope_string, matcher_vars, kernel_vars, batch_vars, segment_vars,
                   tcr_vars, filter_vars, text_vars>>

\* SearchScope::parse(scope_string)
Parse == ScopeCallReturns([op |-> "parse", value |-> SearchScopeParse(scope_string)])

\* match_tcr(db, cdr3, v_segment, j_segment, scope_string, top_n)
MatchTcr(cdr3, v_segment, j_segment, top_n) ==
    ScopeCallReturns([op |-> "match_tcr", cdr3 |-> cdr3, v_segment |-> v_segment,
                      j_segment |-> j_segment, top_n |-> top_n,
                      value |-> match_tcr(ScopeDatabase, cdr3, v_segment, j_segment,
                                          scope_string, top_n)])

\* match_tcr_many(db, cdr3, v_segment, j_segment, scope_string, top_n)
MatchTcrMany(cdr3, v_segment, j_segment, top_n) ==
    ScopeCallReturns([op |-> "match_tcr_many", cdr3 |-> cdr3, v_segment |-> v_segment,
                      j_segment |-> j_segment, top_n |-> top_n,
                      value |-> match_tcr_many(ScopeDatabase, cdr3, v_segment, j_segment,
                                               scope_string, top_n)])

NextScope ==
    \/ Parse
    \/ \E v_segment \in {<<>>, SegV1}, top_n \in {0, 1} :
          MatchTcr(<<65>>, v_segment, SegJ1, top_n)
    \/ \E cdr3 \in ManyCdr3 : MatchTcrMany(cdr3, ManySegV, ManySegJ, 0)

SpecScope == InitScope /\ [][NextScope]_vars

----------------------------------------------------------------------------
(* SpecText: one text filter is applied to one entry *)

\* the entries: the columns the text filters read
TextEntryPool ==
    [species : {SpeciesHs, SpeciesMm}, gene : {GeneTRB}, antigen_species : {SpeciesMm},
     antigen_epitope : Epitopes, antigen_gene : {None, Some(<<71>>), Some(<<71, 78>>)}]

\* the columns named by a filter: the five of RegexFilter, "cdr3", and "Species"
Columns ==
    {"species", "gene", "antigen.species", "antigen.epitope", "antigen.gene", "cdr3",
     "Species"}

\* the literals of the equality form: "hs", "MM", "trb", "g", "G", "gn"
Literals ==
    {<<104, 115>>, <<77, 77>>, <<116, 114, 98>>, <<103>>, <<71>>, <<103, 110>>}

\* the patterns of the regex form: "", "G", "^G", "N$", "^G$", "g"
Patterns == {<<>>, <<71>>, <<94, 71>>, <<78, 36>>, <<94, 71, 36>>, <<103>>}

InitText ==
    /\ MatcherIdle
    /\ KernelIdle
    /\ BatchIdle
    /\ SegmentIdle
    /\ TcrIdle
    /\ FilterIdle
    /\ ScopeIdle
    /\ text_entry \in {Some(entry) : entry \in TextEntryPool}
    /\ text_check = None

\* the filter and what matches returned are recorded
TextFilterReturns(check) ==
    /\ text_check = None
    /\ text_check' = Some(check)
    /\ UNCHANGED <<text_entry, matcher_vars, kernel_vars, batch_vars, segment_vars,
                   tcr_vars, filter_vars, scope_vars>>

\* ExactFilter { column, value }.matches(text_entry)
ExactMatches(column, value) ==
    TextFilterReturns([form |-> "exact", column |-> column, value |-> value,
                       result |-> ExactFilterMatches(column, value, text_entry.val)])

\* RegexFilter { column, pattern }.matches(text_entry)
RegexMatches(column, pattern) ==
    TextFilterReturns([form |-> "regex", column |-> column, value |-> pattern,
                       result |-> RegexFilterMatches(column, pattern, text_entry.val)])

NextText ==
    \/ \E column \in Columns, value \in Literals : ExactMatches(column, value)
    \/ \E column \in Columns, pattern \in Patterns : RegexMatches(column, pattern)

SpecText == InitText /\ [][NextText]_vars

----------------------------------------------------------------------------
(* Properties of the batch executor *)

\* C7: the vector match_clonotypes_parallel returns has the length of the
\* query vector and its element i is match_clonotype(queries[i], corpus,
\* config), in whatever order the workers took and completed the queries; the
\* call panics only if match_clonotype panics on one of the queries.
C7_BatchPositional ==
    batch_output.some =>
        LET Serial(i) == match_clonotype(batch_queries[i], database, config)
        IN  IF batch_output.val.panicked
            THEN \E i \in 1..Len(batch_queries) : Serial(i).panicked
            ELSE /\ Len(batch_output.val.v) = Len(batch_queries)
                 /\ \A i \in 1..Len(batch_queries) :
                        /\ ~Serial(i).panicked
                        /\ batch_output.val.v[i] = Serial(i).v

\* a batch whose first and last queries have different hit lists has returned
C7_Witness ==
    /\ batch_output.some
    /\ ~batch_output.val.panicked
    /\ Len(batch_queries) >= 2
    /\ batch_output.val.v[1] # batch_output.val.v[Len(batch_queries)]
    /\ batch_output.val.v[1] # <<>>

----------------------------------------------------------------------------
(* Properties of the matcher *)

Returned == outcome = "returned"

\* the hits the scan loop retains for the call in the state: the candidates
\* that passed the segment, scope and threshold gates
Scanned == ScanEntries(clonotype, database, config, 1, <<>>)

\* a hit with its weight put back to the 1.0 it is built with
Unweighted(m) == [m EXCEPT !.weight = WeightOne]

UnweightedSeq(ms) == [k \in 1..Len(ms) |-> Unweighted(ms[k])]

\* how many times x occurs in the sequence ms
Occurrences(ms, x) == Cardinality({k \in 1..Len(ms) : ms[k] = x})

\* x is the greatest of the scores of ms that compare (NaN does not)
IsMaxScore(ms, x) ==
    /\ \E k \in 1..Len(ms) : ms[k].score = x /\ ~IsNaN(x)
    /\ \A k \in 1..Len(ms) : ~IsNaN(ms[k].score) => F64Le(ms[k].score, x)

\* C1: match_clonotype returns a hit list for every clonotype, corpus and
\* MatchConfig; it never aborts, the comparison of the top-N sort is defined
\* for every pair of retained hits.
C1_MatchClonotypeTotal == outcome # "panicked"

\* C2: every hit returned has edit_distance <= config.search_scope.total,
\* also when the entry's cdr3 is not upper-case.
C2_HitsWithinTotal ==
    Returned => \A k \in 1..Len(matches) :
                    matches[k].edit_distance <= config.search_scope.total

\* C3: under the default MatchConfig every entry whose cdr3 equals the query
\* CDR3 yields a hit, and every hit has score 1.0 and edit_distance 0.
C3_DefaultExactHits ==
    (Returned /\ config = DefaultConfig) =>
        /\ \A e \in 1..Len(database) :
              database[e].cdr3 = clonotype.cdr3_aa
                  => \E k \in 1..Len(matches) : matches[k].db_entry = database[e]
        /\ \A k \in 1..Len(matches) :
              matches[k].score = One /\ matches[k].edit_distance = 0

\* the scopes that differ from sc in the three per-operation limits only
SameTotal(sc) ==
    {[substitutions |-> s, insertions |-> i, deletions |-> d, total |-> sc.total] :
        s \in 0..MaxTotal, i \in 0..MaxTotal, d \in 0..MaxTotal}

\* C4: the scope gate depends on total only: matches_within_scope is true
\* iff edit_distance <= total (for total = 0 iff the strings are equal), a
\* config that differs in the per-operation limits only gives the same hit
\* list, and with no threshold and no hit filter every candidate within total
\* is retained.
C4_ScopeGateTotalOnly ==
    outcome # "none" =>
        LET q == clonotype.cdr3_aa
            sc == config.search_scope
            InTotal(e) == edit_distance(q, Cdr3SequenceNew(database[e].cdr3)) <= sc.total
        IN  /\ \A e \in 1..Len(database) :
                  LET c == Cdr3SequenceNew(database[e].cdr3)
                  IN  /\ matches_within_scope(q, c, sc) <=> InTotal(e)
                      /\ sc.total = 0 => (matches_within_scope(q, c, sc) <=> q = c)
            /\ \A alt \in SameTotal(sc) :
                  match_clonotype(clonotype, database, [config EXCEPT !.search_scope = alt])
                      = [panicked |-> outcome = "panicked", v |-> matches]
            /\ (Returned /\ ~config.score_threshold.some /\ ~config.max_hits_only
                    /\ ~config.top_n_hits.some)
                  => Len(matches) =
                        Cardinality({e \in 1..Len(database) :
                            PassesSegmentGates(clonotype, database[e], config) /\ InTotal(e)})

\* a hit is returned for an upper-case entry within total whose alignment
\* breaks a per-operation limit of the scope
C4_Witness ==
    /\ Returned
    /\ config.search_scope.total > 0
    /\ \E k \in 1..Len(matches) :
          LET aln == align(clonotype.cdr3_aa, matches[k].db_entry.cdr3)
          IN  /\ matches[k].db_entry.cdr3 = Cdr3SequenceNew(matches[k].db_entry.cdr3)
              /\ aln.edit_distance <= config.search_scope.total
              /\ aln.insertions > config.search_scope.insertions
              /\ ~within_scope(aln, config.search_scope)

\* the sign of a weight -log10(p)
WeightPositive(w) == F64Lt(w.neg_log10_of, One)

WeightZero(w) == w.neg_log10_of = One

\* C6 as stated: with weight_by_informativeness every returned hit has a
\* strictly positive weight, for every corpus.
C6_WeightsStrictlyPositive ==
    (Returned /\ config.weight_by_informativeness) =>
        \A k \in 1..Len(matches) : WeightPositive(matches[k].weight)

\* C6 as amended: with weight_by_informativeness the weight of every returned
\* hit is -log10((count + 1) / (N + 1)) >= 0; it is strictly positive when
\* fewer than all N corpus entries carry the hit's epitope and zero when all do.
C6_WeightsNonNegative ==
    (Returned /\ config.weight_by_informativeness) =>
        \A k \in 1..Len(matches) :
            LET w == matches[k].weight
                count == EpitopeCount(database, matches[k].db_entry.antigen_epitope)
            IN  /\ WeightPositive(w) \/ WeightZero(w)
                /\ WeightPositive(w) <=> count < Len(database)
                /\ w = NegLog10(Rat(count + 1, Len(database) + 1))

\* a weighted hit on an epitope that some other entry of the corpus does not carry
C6_Witness ==
    /\ Returned
    /\ config.weight_by_informativeness
    /\ \E k \in 1..Len(matches) :
          /\ EpitopeCount(database, matches[k].db_entry.antigen_epitope) < Len(database)
          /\ WeightPositive(matches[k].weight)

BeforeTopN == MaxHitsStep(Scanned, config)

\* C9: with top_n_hits = k at most k hits are returned, sorted by score
\* descending; they are hits of the list before truncation, as many as fit,
\* and every hit dropped by the truncation has a score <= every returned
\* score; with max_hits_only all returned hits carry the maximum score.
C9_TopNSortedBest ==
    (Returned /\ config.top_n_hits.some) =>
        LET k == config.top_n_hits.val
            ms == UnweightedSeq(matches)
        IN  /\ Len(ms) <= k
            /\ Len(ms) = Min(k, Len(BeforeTopN))
            /\ \A i, j \in 1..Len(ms) : i < j => F64Le(ms[j].score, ms[i].score)
            /\ \A i \in 1..Len(ms) : Occurrences(ms, ms[i]) <= Occurrences(BeforeTopN, ms[i])
            /\ \A d \in 1..Len(BeforeTopN) :
                  Occurrences(ms, BeforeTopN[d]) < Occurrences(BeforeTopN, BeforeTopN[d])
                      => \A i \in 1..Len(ms) : F64Le(BeforeTopN[d].score, ms[i].score)
            /\ config.max_hits_only =>
                  \A i \in 1..Len(ms) :
                      \E x \in {Scanned[c].score : c \in 1..Len(Scanned)} :
                          IsMaxScore(Scanned, x) /\ WithinTolerance(ms[i].score, x)

\* top-N moved a later, better candidate in front and dropped a worse one
C9_Witness ==
    /\ Returned /\ config.top_n_hits.some /\ ~config.max_hits_only
    /\ Len(matches) = config.top_n_hits.val
    /\ Len(Scanned) > Len(matches)
    /\ F64Lt(Scanned[1].score, matches[1].score)

\* C10: with score_threshold set every returned hit has score >= threshold,
\* and no candidate past the segment and scope gates with score >= threshold
\* is removed by the threshold gate.
C10_ThresholdGate ==
    (Returned /\ config.score_threshold.some) =>
        LET th == config.score_threshold.val
            Ungated == ScanEntries(clonotype, database,
                                   [config EXCEPT !.score_threshold = None], 1, <<>>)
            AtLeast(m) == F64Le(th, m.score)
        IN  /\ \A k \in 1..Len(matches) : F64Le(th, matches[k].score)
            /\ \A k \in 1..Len(Ungated) :
                  AtLeast(Ungated[k]) => Occurrences(Scanned, Ungated[k]) > 0

\* C11: for every hit, cdr3_alignment_score is compute_normalized_score of
\* the alignment when use_vdjmatch_scoring is set and scoring_mode = 1 and
\* simple_mismatch_score otherwise; score is 0.5 * cdr3_alignment_score +
\* 0.25 * v_score + 0.25 * j_score when use_vdjmatch_scoring is set and
\* cdr3_alignment_score otherwise.
C11_ScoreFormulas ==
    Returned =>
        \A k \in 1..Len(matches) :
            LET m == matches[k]
                aln == align(clonotype.cdr3_aa, m.db_entry.cdr3)
                c == m.cdr3_alignment_score
                v == m.v_score
                j == m.j_score
            IN  /\ c = IF config.use_vdjmatch_scoring /\ config.scoring_mode = 1
                        THEN compute_normalized_score(aln)
                        ELSE simple_mismatch_score(aln)
                /\ IF config.use_vdjmatch_scoring
                   THEN /\ IsFinite(m.score) /\ IsFinite(c) /\ IsFinite(v) /\ IsFinite(j)
                        /\ 4 * m.score.n * c.d * v.d * j.d
                             = m.score.d * (2 * c.n * v.d * j.d + v.n * c.d * j.d
                                                + j.n * c.d * v.d)
                   ELSE m.score = c

\* a hit scored in mode 1 whose normalized CDR3 score is not the simple one
\* and whose V score is 0
C11_Witness ==
    /\ Returned
    /\ config.use_vdjmatch_scoring /\ config.scoring_mode = 1
    /\ \E k \in 1..Len(matches) :
          /\ matches[k].v_score = Zero
          /\ matches[k].cdr3_alignment_score
                # simple_mismatch_score(align(clonotype.cdr3_aa, matches[k].db_entry.cdr3))
          /\ F64Lt(matches[k].score, matches[k].cdr3_alignment_score)

\* C14: for the same query, corpus and otherwise identical config the call
\* with weight_by_informativeness set and the call with it clear end the same
\* way and return the same hits in the same order with the same score,
\* cdr3_alignment_score, v_score, j_score and edit_distance; the weight alone
\* may differ, and with the flag clear every weight is 1.0.
C14_WeightsOnlyAnnotate ==
    outcome # "none" =>
        LET flipped == [config EXCEPT !.weight_by_informativeness = ~@]
            other == match_clonotype(clonotype, database, flipped)
            plain == IF config.weight_by_informativeness THEN other.v ELSE matches
        IN  /\ other.panicked <=> outcome = "panicked"
            /\ UnweightedSeq(other.v) = UnweightedSeq(matches)
            /\ \A k \in 1..Len(plain) : plain[k].weight = WeightOne

\* weighted hits that stay in scan order although the second scores higher
C14_Witness ==
    /\ Returned
    /\ config.weight_by_informativeness
    /\ Len(matches) = 2
    /\ matches[1].weight # WeightOne
    /\ F64Lt(matches[1].score, matches[2].score)
    /\ matches[1].db_entry = database[1]

\* a segment identifier without everything from its first '*' on
DropAllele(s) ==
    LET stars == {i \in 1..Len(s) : s[i] = 42}
        first == IF stars = {} THEN Len(s) + 1
                 ELSE CHOOSE i \in stars : \A other \in stars : i <= other
    IN  SubSeq(s, 1, first - 1)

\* the entry's segment is the query's, alleles dropped
SameSegment(query_segment, db_segment) == DropAllele(query_segment) = DropAllele(db_segment)

\* C12: with match_v and a non-empty query V every hit's reference V equals
\* the query V after dropping the allele suffix, and its v_score is 1.0; with
\* an empty query V or match_v false no candidate is rejected because of its
\* V segment; the same for J with match_j: the hits are, in order, exactly
\* the entries within the scope that pass the gates that apply.
C12_SegmentGates ==
    Returned =>
        LET q == clonotype
            v_applies == config.match_v /\ q.v_segment # <<>>
            j_applies == config.match_j /\ q.j_segment # <<>>
            Kept(e) ==
                /\ v_applies => SameSegment(q.v_segment, e.v_segment)
                /\ j_applies => SameSegment(q.j_segment, e.j_segment)
                /\ edit_distance(q.cdr3_aa, Cdr3SequenceNew(e.cdr3))
                      <= config.search_scope.total
        IN  /\ v_applies => \A k \in 1..Len(matches) :
                                /\ SameSegment(q.v_segment, matches[k].db_entry.v_segment)
                                /\ matches[k].v_score = One
            /\ j_applies => \A k \in 1..Len(matches) :
                                /\ SameSegment(q.j_segment, matches[k].db_entry.j_segment)
                                /\ matches[k].j_score = One
            /\ [k \in 1..Len(matches) |-> matches[k].db_entry] = SelectSeq(database, Kept)

\* the V gate applied and rejected an entry, kept one with another allele; the
\* J gate was requested with an empty query J and let a J through
C12_Witness ==
    /\ Returned
    /\ config.match_v /\ clonotype.v_segment # <<>>
    /\ config.match_j /\ clonotype.j_segment = <<>>
    /\ Len(database) = 2 /\ Len(matches) = 1
    /\ matches[1].db_entry.v_segment # clonotype.v_segment
    /\ matches[1].j_score = Zero
    /\ \E e \in 1..Len(database) :
          /\ ~SameSegment(clonotype.v_segment, database[e].v_segment)
          /\ database[e].cdr3 = clonotype.cdr3_aa

\* allele suffixes "01", "02"
Alleles == {<<48, 49>>, <<48, 50>>}

\* 1.0 when the condition holds, 0.0 otherwise
Indicator(condition) == IF condition THEN One ELSE Zero

\* C13: segment_match_score(q, r, true) is 1.0 exactly when q and r are
\* equal after dropping everything from the first '*', and 0.0 otherwise (two
\* identifiers that differ in allele only score 1.0, and s normalizes as
\* s + '*' + allele does); with normalize = false it is 1.0 exactly when the
\* strings are identical; the v_score and j_score of a hit are computed with
\* normalize = true whatever match_v and match_j are.
C13_SegmentMatchScore ==
    /\ seg_scores.some =>
          LET r == seg_scores.val
          IN  /\ r.score = IF r.normalize
                           THEN Indicator(SameSegment(r.query_segment, r.db_segment))
                           ELSE Indicator(r.query_segment = r.db_segment)
              /\ \A s \in {r.query_segment, r.db_segment}, allele \in Alleles :
                    /\ normalize_segment(s) = normalize_segment(s \o <<42>> \o allele)
                    /\ segment_match_score(s, s \o <<42>> \o allele, TRUE) = One
    /\ Returned =>
          \A k \in 1..Len(matches) :
              /\ matches[k].v_score
                    = Indicator(SameSegment(clonotype.v_segment, matches[k].db_entry.v_segment))
              /\ matches[k].j_score
                    = Indicator(SameSegment(clonotype.j_segment, matches[k].db_entry.j_segment))

\* two identifiers that differ in allele only were scored 1.0
C13_Witness ==
    /\ seg_scores.some
    /\ seg_scores.val.normalize
    /\ seg_scores.val.query_segment # seg_scores.val.db_segment
    /\ DropAllele(seg_scores.val.query_segment) # <<>>
    /\ DropAllele(seg_scores.val.query_segment) # seg_scores.val.query_segment
    /\ DropAllele(seg_scores.val.db_segment) # seg_scores.val.db_segment
    /\ seg_scores.val.score = One

----------------------------------------------------------------------------
(* Properties of the scores and of the alignment kernel *)

InUnitInterval(x) == F64Le(Zero, x) /\ F64Le(x, One)

\* C5: simple_mismatch_score and compute_normalized_score of the alignment of
\* every pair of strings, two empty strings included, are defined and in [0, 1].
C5_ScoresInUnitInterval ==
    scores.some =>
        /\ InUnitInterval(scores.val.simple)
        /\ InUnitInterval(scores.val.normalized)

\* C15: edit_distance is a metric on strings: edit_distance(x, x) = 0 (and
\* the distance is 0 for equal strings only), edit_distance(x, y) =
\* edit_distance(y, x), and edit_distance(x, z) <= edit_distance(x, y) +
\* edit_distance(y, z) for all strings, the empty string included.
C15_EditDistanceMetric ==
    distance.some =>
        LET x == seq_query
            z == seq_target
            d == distance.val
        IN  /\ x = z <=> d = 0
            /\ edit_distance(x, x) = 0 /\ edit_distance(z, z) = 0
            /\ d = edit_distance(z, x)
            /\ \A y \in KernelStrings : d <= edit_distance(x, y) + edit_distance(y, z)

\* two strings of different lengths at distance 2, with a third string
\* strictly between them
C15_Witness ==
    /\ distance.some
    /\ distance.val = 2
    /\ Len(seq_query) < Len(seq_target)
    /\ \E y \in KernelStrings :
          /\ edit_distance(seq_query, y) = 1
          /\ edit_distance(y, seq_target) = 1

\* C16: for all strings x and y the two-row edit_distance(x, y) equals
\* align(x, y).edit_distance, and the counts of the backtrace satisfy
\* substitutions + insertions + deletions = align(x, y).edit_distance.
C16_AlignAgreesWithEditDistance ==
    alignment.some =>
        LET a == alignment.val
        IN  /\ a.substitutions + a.insertions + a.deletions = a.edit_distance
            /\ a.edit_distance = edit_distance(seq_query, seq_target)
            /\ distance.some => distance.val = a.edit_distance

\* a pair aligned with one substitution and one insertion, both distances computed
C16_Witness ==
    /\ alignment.some /\ distance.some
    /\ alignment.val.substitutions = 1
    /\ alignment.val.insertions = 1
    /\ distance.val = 2

\* the distance of the first i bytes of x and the first j bytes of y
PrefixDistance(x, y, i, j) == edit_distance(SubSeq(x, 1, i), SubSeq(y, 1, j))

\* the operation the preference order names at cell (i, j), i + j > 0
PreferredAt(x, y, i, j) ==
    IF i > 0 /\ j > 0
          /\ PrefixDistance(x, y, i, j)
                = PrefixDistance(x, y, i - 1, j - 1) + (IF x[i] = y[j] THEN 0 ELSE 1)
    THEN (IF x[i] = y[j] THEN "Match" ELSE "Substitution")
    ELSE IF i > 0 /\ PrefixDistance(x, y, i, j) = PrefixDistance(x, y, i - 1, j) + 1
    THEN "Deletion"
    ELSE "Insertion"

\* ops[1..k], read from its end, is the path of the preferred operations
\* from cell (i, j) to cell (0, 0)
RECURSIVE FollowsPreference(_, _, _, _, _, _)
FollowsPreference(ops, k, x, y, i, j) ==
    IF k = 0 THEN i = 0 /\ j = 0
    ELSE /\ i + j > 0
         /\ ops[k] = PreferredAt(x, y, i, j)
         /\ FollowsPreference(ops, k - 1, x, y,
                              IF ops[k] = "Insertion" THEN i ELSE i - 1,
                              IF ops[k] = "Deletion" THEN j ELSE j - 1)

\* ops[k..], read from the front with qi bytes of x and ti bytes of y
\* consumed, turns x into y left to right
RECURSIVE ReadsLeftToRight(_, _, _, _, _, _)
ReadsLeftToRight(ops, k, x, y, qi, ti) ==
    IF k > Len(ops) THEN qi = Len(x) /\ ti = Len(y)
    ELSE /\ ops[k] \in {"Match", "Substitution"}
               => /\ qi < Len(x) /\ ti < Len(y)
                  /\ (ops[k] = "Match") <=> (x[qi + 1] = y[ti + 1])
         /\ ops[k] = "Deletion" => qi < Len(x)
         /\ ops[k] = "Insertion" => ti < Len(y)
         /\ ReadsLeftToRight(ops, k + 1, x, y,
                             IF ops[k] = "Insertion" THEN qi ELSE qi + 1,
                             IF ops[k] = "Deletion" THEN ti ELSE ti + 1)

----------------------------------------------------------------------------
(* Properties of tcrdist *)

\* C18: tcrdist(t, t) = 0 for every TCR t, whatever bytes its CDR strings
\* contain (bytes outside the 20 amino acids included).
C18_TcrdistIdentity ==
    (tcr_distance.some /\ tcr_first = tcr_second) => tcr_distance.val = Zero

\* the bytes of the 20 amino acids, and 'X'
TableBytes == {AcidOrder[k] : k \in 1..Len(AcidOrder)} \cup {88}

\* C19: tcrdist(a, b) = tcrdist(b, a) for all TCRs a and b; the substitution
\* table and the position score are symmetric.
C19_TcrdistSymmetric ==
    tcr_distance.some =>
        /\ tcr_distance.val = tcrdist(tcr_second, tcr_first)
        /\ tcr_first = tcr_second =>
              \A aa1 \in TableBytes, aa2 \in TableBytes :
                  /\ blosum62_score(aa1, aa2) = blosum62_score(aa2, aa1)
                  /\ position_score(aa1, aa2) = position_score(aa2, aa1)

\* two TCRs at a positive distance whose CDR1 alpha differ in a byte and
\* whose CDR3 beta differ in length
C19_Witness ==
    /\ tcr_distance.some
    /\ F64Lt(Zero, tcr_distance.val)
    /\ tcr_first.cdr1_a_aa = Some(<<65>>)
    /\ tcr_second.cdr1_a_aa = Some(<<82>>)
    /\ tcr_first.cdr3_b_aa.some /\ tcr_second.cdr3_b_aa.some
    /\ Len(tcr_first.cdr3_b_aa.val) < Len(tcr_second.cdr3_b_aa.val)

\* the cost of putting byte a against byte b: max(0, 4 - BLOSUM62[a, b]),
\* the table entry of a byte that is no amino acid being -4
PairCost(a, b) ==
    LET Row(c) == CHOOSE k \in 1..Len(AcidOrder) : AcidOrder[k] = c
        known == {AcidOrder[k] : k \in 1..Len(AcidOrder)}
        entry == IF a \in known /\ b \in known THEN BLOSUM62[Row(a)][Row(b)] ELSE -4
    IN  IF 4 - entry > 0 THEN 4 - entry ELSE 0

\* how many times op occurs in ops
CountOp(ops, op) == Cardinality({k \in 1..Len(ops) : ops[k] = op})

\* the global alignments of a string of len1 bytes with one of len2 bytes:
\* columns that pair two bytes ("P"), leave a byte of the first string
\* unpaired ("D") or a byte of the second ("I")
GlobalAlignments(len1, len2) ==
    {ops \in UNION {[1..n -> {"P", "D", "I"}] : n \in 0..(len1 + len2)} :
        /\ CountOp(ops, "P") + CountOp(ops, "D") = len1
        /\ CountOp(ops, "P") + CountOp(ops, "I") = len2}

\* the cost of the columns ops[k..] with qi bytes of x and ti bytes of y consumed
RECURSIVE ColumnsCost(_, _, _, _, _, _, _)
ColumnsCost(ops, k, x, y, qi, ti, gap) ==
    IF k > Len(ops) THEN 0
    ELSE IF ops[k] = "P"
    THEN PairCost(x[qi + 1], y[ti + 1]) + ColumnsCost(ops, k + 1, x, y, qi + 1, ti + 1, gap)
    ELSE IF ops[k] = "D" THEN gap + ColumnsCost(ops, k + 1, x, y, qi + 1, ti, gap)
    ELSE gap + ColumnsCost(ops, k + 1, x, y, qi, ti + 1, gap)

\* NW: the least cost of a global alignment of x and y
MinAlignmentCost(x, y, gap) ==
    LET costs == {ColumnsCost(ops, 1, x, y, 0, 0, gap) : ops \in GlobalAlignments(Len(x), Len(y))}
    IN  CHOOSE c \in costs : \A other \in costs : c <= other

\* what a CDR adds to the distance of a chain: nothing when it is missing
\* on either side
CdrTerm(cdr_1, cdr_2, gap) ==
    IF cdr_1.some /\ cdr_2.some THEN MinAlignmentCost(cdr_1.val, cdr_2.val, gap) ELSE 0

\* C20: tcrdist(a, b) is the sum over the alpha and beta chains of
\* NW(CDR1, gap 4) + NW(CDR2, gap 4) + 3 * NW(CDR3, gap 8), NW being the
\* minimum-cost global alignment with per-position cost max(0, 4 -
\* BLOSUM62[x, y]); a CDR missing on either side contributes 0 and an empty
\* string against a string of length n costs n * gap.
C20_TcrdistFormula ==
    tcr_distance.some =>
        LET a == tcr_first
            b == tcr_second
            alpha == CdrTerm(a.cdr1_a_aa, b.cdr1_a_aa, 4) + CdrTerm(a.cdr2_a_aa, b.cdr2_a_aa, 4)
                        + 3 * CdrTerm(a.cdr3_a_aa, b.cdr3_a_aa, 8)
            beta == CdrTerm(a.cdr1_b_aa, b.cdr1_b_aa, 4) + CdrTerm(a.cdr2_b_aa, b.cdr2_b_aa, 4)
                        + 3 * CdrTerm(a.cdr3_b_aa, b.cdr3_b_aa, 8)
        IN  /\ tcr_distance.val = [n |-> alpha + beta, d |-> 1]
            /\ (a.cdr3_b_aa = Some(<<>>) /\ b.cdr3_b_aa.some /\ a.cdr1_a_aa = None
                    /\ a.cdr2_b_aa = None)
                  => tcr_distance.val = [n |-> 3 * 8 * Len(b.cdr3_b_aa.val), d |-> 1]

\* a CDR1 pair with a substitution, a CDR2 missing on one side and a CDR3 pair
\* of different non-zero lengths
C20_Witness ==
    /\ tcr_distance.some
    /\ tcr_first.cdr1_a_aa = Some(<<65, 82>>)
    /\ tcr_second.cdr1_a_aa = Some(<<82, 82>>)
    /\ tcr_first.cdr2_b_aa = None /\ tcr_second.cdr2_b_aa.some
    /\ tcr_first.cdr3_b_aa = Some(<<65>>)
    /\ tcr_second.cdr3_b_aa = Some(<<65, 82>>)
    /\ tcr_distance.val = [n |-> 5 + 3 * 8, d |-> 1]

----------------------------------------------------------------------------
(* Properties of the corpus filters *)

\* the filter op was called and has returned
Called(op) == filter_call.some /\ filter_call.val.op = op

\* result holds, in source order, exactly the entries of source at the indices kept
SelectsInOrder(source, result, kept) ==
    /\ Len(result) = Cardinality(kept)
    /\ \E at \in [1..Len(result) -> 1..Len(source)] :
          /\ \A k \in 1..Len(result) : result[k] = source[at[k]]
          /\ \A k \in 1..Len(result), l \in 1..Len(result) : k < l => at[k] < at[l]
          /\ {at[k] : k \in 1..Len(result)} = kept

\* two names are the same letters, upper or lower case
SameIgnoringCase(a, b) == Cdr3SequenceNew(a) = Cdr3SequenceNew(b)

\* the entry passes the species and the gene filter, where they are given
PassesNames(entry, species, gene) ==
    /\ species.some => SameIgnoringCase(entry.species, species.val)
    /\ gene.some => SameIgnoringCase(entry.gene, gene.val)

\* C21: Database::filter returns, in source order, exactly the source entries
\* whose species and gene equal the given values ignoring case (a filter not
\* given is not applied) and whose vdjdb_score >= min_vdjdb_score; the same
\* filter applied to its own result returns the same entries.
C21_FilterSelects ==
    Called("filter") =>
        /\ SelectsInOrder(corpus, filtered.val,
              {i \in 1..Len(corpus) :
                  /\ PassesNames(corpus[i], filter_call.val.species, filter_call.val.gene)
                  /\ corpus[i].vdjdb_score >= filter_call.val.min_vdjdb_score})
        /\ filter(filtered.val, filter_call.val.species, filter_call.val.gene,
                  filter_call.val.min_vdjdb_score) = filtered.val

\* a call with a species, a gene and a positive score that keeps the first and
\* the last of three entries and drops the second
C21_Witness ==
    /\ Called("filter")
    /\ filter_call.val.species.some
    /\ filter_call.val.gene.some
    /\ filter_call.val.min_vdjdb_score > 0
    /\ Len(corpus) = 3
    /\ filtered.val = <<corpus[1], corpus[3]>>
    /\ corpus[2] # corpus[1]
    /\ corpus[2] # corpus[3]

\* the number of source entries that carry the epitope
Carriers(epitope) == Cardinality({i \in 1..Len(corpus) : corpus[i].antigen_epitope = epitope})

Cdr3sOf(epitope) ==
    {corpus[i].cdr3 : i \in {k \in 1..Len(corpus) : corpus[k].antigen_epitope = epitope}}

\* C23: filter_by_epitope_size(min_size) retains exactly the entries whose
\* epitope is associated with at least min_size unique CDR3 sequences in the
\* source database (entries with the same CDR3 and epitope count once).
C23_EpitopeSizeCountsUniqueCdr3 ==
    Called("filter_by_epitope_size") =>
        SelectsInOrder(corpus, filtered.val,
            {i \in 1..Len(corpus) :
                Cardinality(Cdr3sOf(corpus[i].antigen_epitope)) >= filter_call.val.min_size})

\* the species or gene argument of filter_db as a filter: a blank one is none
Given(arg) == IF arg.some /\ \A i \in 1..Len(arg.val) : arg.val[i] = 32 THEN None ELSE arg

\* C28: for every 32-bit integer m, filter_db(db, species, gene, m) keeps
\* exactly the entries passing species and gene with vdjdb_score >= m (all of
\* them when m <= 0, none when m > 255), and filter_db_by_epitope_size(db, m)
\* keeps exactly the entries whose epitope occurs at least m times (all
\* entries when m <= 0).
C28_BindingPassesIntegerThrough ==
    /\ Called("filter_db") =>
          SelectsInOrder(corpus, filtered.val,
              {i \in 1..Len(corpus) :
                  /\ PassesNames(corpus[i], Given(filter_call.val.species),
                                 Given(filter_call.val.gene))
                  /\ corpus[i].vdjdb_score >= filter_call.val.min_vdjdb_score})
    /\ Called("filter_db_by_epitope_size") =>
          SelectsInOrder(corpus, filtered.val,
              {i \in 1..Len(corpus) :
                  Carriers(corpus[i].antigen_epitope) >= filter_call.val.min_size})

----------------------------------------------------------------------------
(* Properties of SearchScope::parse and of the scope of match_tcr *)

\* the scope call op was made and has returned
ScopeCalled(op) == scope_result.some /\ scope_result.val.op = op

\* the positions of the commas of s
Commas(s) == {i \in 1..Len(s) : s[i] = 44}

\* the number of fields of s as a comma-separated list
NumFields(s) == Cardinality(Commas(s)) + 1

\* the position of the k-th comma of s; 0 before the first, Len(s) + 1 after the last
CommaPos(s, k) ==
    IF k = 0 THEN 0
    ELSE IF k > Cardinality(Commas(s)) THEN Len(s) + 1
    ELSE CHOOSE i \in Commas(s) : Cardinality({j \in Commas(s) : j < i}) = k - 1

\* the k-th field of s
Field(s, k) == SubSeq(s, CommaPos(s, k - 1) + 1, CommaPos(s, k) - 1)

\* the field without its leading '+', if it has one
Unsigned(f) == IF Len(f) > 0 /\ f[1] = 43 THEN Tail(f) ELSE f

\* the field is a non-negative integer in decimal: digits, after at most one '+'
IsNumeral(f) ==
    /\ Len(Unsigned(f)) > 0
    /\ \A i \in 1..Len(Unsigned(f)) : Unsigned(f)[i] >= 48 /\ Unsigned(f)[i] <= 57

\* the digits without their leading zeros
RECURSIVE Significant(_)
Significant(d) == IF Len(d) > 0 /\ d[1] = 48 THEN Significant(Tail(d)) ELSE d

\* a <= b for two strings of digits of one length
RECURSIVE DigitsLe(_, _)
DigitsLe(a, b) ==
    IF Len(a) = 0 THEN TRUE
    ELSE IF a[1] # b[1] THEN a[1] < b[1]
    ELSE DigitsLe(Tail(a), Tail(b))

\* the numeral is at most usize::MAX = 18446744073709551615
FitsUsize(f) ==
    \/ Len(Significant(Unsigned(f))) < Len(UsizeMaxString)
    \/ /\ Len(Significant(Unsigned(f))) = Len(UsizeMaxString)
       /\ DigitsLe(Significant(Unsigned(f)), UsizeMaxString)

\* the number a string of at most nine digits denotes
RECURSIVE NatOfDigits(_)
NatOfDigits(d) ==
    IF Len(d) = 0 THEN 0 ELSE 10 * NatOfDigits(SubSeq(d, 1, Len(d) - 1)) + (d[Len(d)] - 48)

\* the usize u is the number the numeral denotes (numerals of at most nine
\* significant digits, and the numeral of usize::MAX)
Denotes(f, u) ==
    /\ Len(Significant(Unsigned(f))) <= 9 =>
          /\ u[1] = 0
          /\ u[2] = 0
          /\ u[3] * 65536 + u[4] = NatOfDigits(Significant(Unsigned(f)))
    /\ Significant(Unsigned(f)) = UsizeMaxString => u = <<65535, 65535, 65535, 65535>>

\* the scope holds the fields of s in the order the format gives them
ScopeDenotes(s, scope) ==
    /\ Denotes(Field(s, 1), scope.substitutions)
    /\ Denotes(Field(s, 2), scope.insertions)
    /\ Denotes(Field(s, NumFields(s) - 1), scope.deletions)
    /\ Denotes(Field(s, NumFields(s)), scope.total)

\* "0,0,0,0": the scope EXACT as a string
ExactString == <<48, 44, 48, 44, 48, 44, 48>>

\* match_tcr and match_tcr_many on a string that fails to parse return what
\* they return on the scope EXACT
FallsBackToExact ==
    /\ (ScopeCalled("match_tcr") /\ ~SearchScopeParse(scope_string).ok) =>
          scope_result.val.value =
              match_tcr(ScopeDatabase, scope_result.val.cdr3, scope_result.val.v_segment,
                        scope_result.val.j_segment, ExactString, scope_result.val.top_n)
    /\ (ScopeCalled("match_tcr_many") /\ ~SearchScopeParse(scope_string).ok) =>
          scope_result.val.value =
              match_tcr_many(ScopeDatabase, scope_result.val.cdr3,
                             scope_result.val.v_segment, scope_result.val.j_segment,
                             ExactString, scope_result.val.top_n)

\* C24 as stated: SearchScope::parse returns Ok exactly for the comma-separated
\* lists of four non-negative integers (s, i, d, t) or three (s, indels, t,
\* with insertions = deletions = indels) and Err for every other string, and
\* match_tcr / match_tcr_many on a string that fails to parse behave as with
\* the scope EXACT.
C24_ParseAcceptsEveryIntegerList ==
    /\ ScopeCalled("parse") =>
          /\ scope_result.val.value.ok <=>
                /\ NumFields(scope_string) \in {3, 4}
                /\ \A k \in 1..NumFields(scope_string) : IsNumeral(Field(scope_string, k))
          /\ scope_result.val.value.ok =>
                ScopeDenotes(scope_string, scope_result.val.value.val)
    /\ FallsBackToExact

\* C24 as amended: SearchScope::parse returns Ok exactly for the lists of
\* three or four fields that are each a decimal numeral of at most
\* usize::MAX, with at most one leading '+'; the fields are then read as
\* (s, i, d, t) or as (s, indels, t) with insertions = deletions = indels.  It
\* returns Err for every other string, a numeral beyond usize::MAX included,
\* and match_tcr / match_tcr_many then behave as with the scope EXACT.
C24_ParseAcceptsUsizeLists ==
    /\ ScopeCalled("parse") =>
          /\ scope_result.val.value.ok <=>
                /\ NumFields(scope_string) \in {3, 4}
                /\ \A k \in 1..NumFields(scope_string) :
                      IsNumeral(Field(scope_string, k)) /\ FitsUsize(Field(scope_string, k))
          /\ scope_result.val.value.ok =>
                ScopeDenotes(scope_string, scope_result.val.value.val)
    /\ FallsBackToExact

\* the three-field string "18446744073709551615,+2,1" is parsed
C24_Witness ==
    /\ ScopeCalled("parse")
    /\ scope_string = UsizeMaxString \o <<44, 43, 50, 44, 49>>
    /\ scope_result.val.value.ok
    /\ scope_result.val.value.val.insertions = UsizeOfNat(2)
    /\ scope_result.val.value.val.deletions = UsizeOfNat(2)
    /\ scope_result.val.value.val.total = UsizeOfNat(1)

----------------------------------------------------------------------------
(* Properties of the text filters *)

\* a filter of the form given was applied
Checked(form) == text_check.some /\ text_check.val.form = form

\* the columns of the equality form and the fields they name
EqualityColumns == {"species", "gene", "antigen.species", "antigen.epitope"}

FieldOf(entry, column) ==
    CASE column = "species" -> entry.species
      [] column = "gene" -> entry.gene
      [] column = "antigen.species" -> entry.antigen_species
      [] column = "antigen.epitope" -> entry.antigen_epitope

\* the literal occurs in the text as a run of bytes
Occurs(literal, text) ==
    \E a \in 0..Len(text), b \in 0..Len(text) : a <= b /\ SubSeq(text, a + 1, b) = literal

\* C25: a filter on a column outside the recognized set is false for every
\* entry, in the equality and in the regex form; the equality form on species,
\* gene, antigen.species and antigen.epitope is true exactly when the field
\* equals the literal ignoring ASCII case; antigen.gene is evaluated by the
\* regex form only, which is false for an entry without an antigen gene.
C25_TextFilters ==
    /\ (text_check.some /\ text_check.val.column \notin EqualityColumns \cup {"antigen.gene"}) =>
          ~text_check.val.result
    /\ (Checked("exact") /\ text_check.val.column \in EqualityColumns) =>
          (text_check.val.result <=>
              SameIgnoringCase(FieldOf(text_entry.val, text_check.val.column),
                               text_check.val.value))
    /\ (Checked("exact") /\ text_check.val.column = "antigen.gene") => ~text_check.val.result
    /\ (Checked("regex") /\ text_check.val.column = "antigen.gene") =>
          /\ ~text_entry.val.antigen_gene.some => ~text_check.val.result
          /\ (text_entry.val.antigen_gene.some /\ text_check.val.value = <<71>>) =>
                (text_check.val.result <=> Occurs(<<71>>, text_entry.val.antigen_gene.val))

\* the equality filter antigen.gene == 'g' on an entry whose antigen gene is "G"
C25_Witness ==
    /\ Checked("exact")
    /\ text_check.val.column = "antigen.gene"
    /\ text_check.val.value = <<103>>
    /\ text_entry.val.antigen_gene = Some(<<71>>)
    /\ ~text_check.val.result

----------------------------------------------------------------------------
(* Properties of the alignment score and of the backtrace *)

\* the alignment score by the standard BLOSUM62 matrix, the table of
\* tcrdist.rs (-4 for an unknown byte), from operation k on: qi and ti are the
\* bytes of the query and of the target consumed so far
RECURSIVE StandardScoreFrom(_, _, _, _)
StandardScoreFrom(aln, k, qi, ti) ==
    IF k > Len(aln.operations) THEN 0
    ELSE IF aln.operations[k] \in {"Match", "Substitution"}
    THEN blosum62_score(aln.query[qi + 1], aln.target[ti + 1])
            + StandardScoreFrom(aln, k + 1, qi + 1, ti + 1)
    ELSE IF aln.operations[k] = "Insertion"
    THEN StandardScoreFrom(aln, k + 1, qi, ti + 1) - 4
    ELSE StandardScoreFrom(aln, k + 1, qi + 1, ti) - 4

\* C26: compute_alignment_score adds, for each Match and Substitution, the
\* BLOSUM62 value of the aligned bytes (the standard matrix of the 20 amino
\* acids, the values the tcrdist table holds, and -4 when a byte is unknown),
\* and subtracts 4 for each Insertion and Deletion.
C26_ScoreIsStandardBlosum62 ==
    scores.some => scores.val.raw = StandardScoreFrom(alignment.val, 1, 0, 0)

\* the string is one of amino acids
IsAminoAcids(s) == \A i \in 1..Len(s) : s[i] \in Acids

\* C27: compute_alignment_score is strictly positive for the alignment of a
\* non-empty amino-acid sequence with itself, and strictly negative for the
\* alignment of two equal-length sequences that differ at every position
\* (substitutions only, such as AAAA against TTTT).
C27_SelfPositiveMismatchNegative ==
    scores.some =>
        /\ (seq_query = seq_target /\ Len(seq_query) > 0 /\ IsAminoAcids(seq_query)) =>
              scores.val.raw > 0
        /\ ( /\ Len(seq_query) = Len(seq_target)
             /\ Len(seq_query) > 0
             /\ \A i \in 1..Len(seq_query) : seq_query[i] # seq_target[i] ) =>
              scores.val.raw < 0

\* C29: the backtrace loop of align terminates for every pair of strings: one
\* of its three branches always applies, each iteration decreases i or j by
\* one and the loop ends at (0, 0); the operations consume exactly |query|
\* query bytes (Match + Substitution + Deletion) and |target| target bytes
\* (Match + Substitution + Insertion).
C29_BacktraceTerminates ==
    alignment.some =>
        /\ ~alignment.val.stuck
        /\ CountOp(alignment.val.operations, "Match")
              + CountOp(alignment.val.operations, "Substitution")
              + CountOp(alignment.val.operations, "Deletion") = Len(seq_query)
        /\ CountOp(alignment.val.operations, "Match")
              + CountOp(alignment.val.operations, "Substitution")
              + CountOp(alignment.val.operations, "Insertion") = Len(seq_target)
        /\ CountOp(alignment.val.operations, "Substitution") = alignment.val.substitutions
        /\ CountOp(alignment.val.operations, "Deletion") = alignment.val.deletions
        /\ CountOp(alignment.val.operations, "Insertion") = alignment.val.insertions
        /\ Len(alignment.val.operations) <= Len(seq_query) + Len(seq_target)

\* the backtrace of "AS" against "T" ends after a deletion and a substitution
C29_Witness ==
    /\ alignment.some
    /\ seq_query = <<65, 83>>
    /\ seq_target = <<84>>
    /\ ~alignment.val.stuck
    /\ alignment.val.deletions = 1
    /\ alignment.val.substitutions = 1
    /\ Len(alignment.val.operations) = 2

\* C30: under normalized scoring an exact match ranks strictly above every
\* inexact one: compute_normalized_score(align(q, t)) = 1.0 only if q = t,
\* and for q # t it is strictly below the score of align(q, q).
C30_ExactRanksAboveInexact ==
    scores.some =>
        /\ scores.val.normalized = One => seq_query = seq_target
        /\ seq_query # seq_target =>
              F64Lt(scores.val.normalized,
                    compute_normalized_score(align(seq_query, seq_query)))

====
